---- MODULE Spec2Model ----
(***************************************************************************)
(* Model of the streaming core of copilot-scripts:                         *)
(*   - the Effect-based StreamBuffer (fence-aware buffer) that routes the  *)
(*     lines of fenced code blocks through the syntax highlighter;         *)
(*   - the parseSSE event decoder;                                         *)
(*   - the delta extraction of the two chat endpoints and the endpoint     *)
(*     fallback of chatStream;                                             *)
(*   - the Effect-based SyntaxHighlighter;                                 *)
(*   - the conversation history of CopilotChatInstance;                    *)
(*   - the model list cache and the model filter of ModelResolver.         *)
(* Strings are sequences of one-character strings.                         *)
(***************************************************************************)
EXTENDS Integers, Sequences, FiniteSets, TLC

VARIABLES
  text,       \* the whole response text the deltas are cut from
  pos,        \* how many characters of text have been written so far
  ref,        \* the Ref holding the BufferState
  output,     \* everything passed to onWrite, concatenated in call order
  hlCalls,    \* the calls made to the highlighter: code line and language
  lastSteps,  \* one record per loop iteration of the latest write()
  stuck,      \* the latest write() did not leave its loop within MaxSteps
  flushed,    \* flush() has been called
  sseStream,  \* the characters the response body delivers before it closes
  ssePos,     \* how many of them the reader has returned so far
  sseBuffer,  \* parseSSE's buffer: the pending partial line
  sseEvents,  \* the values parseSSE has yielded, in order
  sseErrors,  \* the payloads reported by console.error
  sseStatus,  \* "reading", "returned" ([DONE] seen), "closed" (source done)
              \* or "failed" (a read was rejected and the generator threw)
  sseLastRead, \* how the latest reader.read() ended: "none", "chunk", "done", "error"
  dChunk,     \* the protocol event handed to a stream's flatMap callback
  dApi,       \* the endpoint whose callback received it, "none" before
  dOut,       \* what the callback did: the values emitted, or that it threw
  dText,      \* what extractTextFromDelta returned, when the callback called it
  useResponses, \* model.use_responses
  chatVersion,  \* which chatStream runs: "effect" (chat.ts) or "generator"
  chatPhase,    \* "start", the endpoint being streamed, "done", "failed", "died"
  chatRequests, \* the endpoints requested so far, in order
  chatDeltas,   \* the text deltas the consumer of chatStream has received
  chatCount,    \* events received on the stream being consumed
  shCode,     \* the code of the latest SyntaxHighlighter.highlight call
  shLang,     \* its language tag
  shExit,     \* the Exit of its effect
  shCause,    \* what failed inside it: "none", "init" or "tokens"
  shInitRuns, \* how many times the body of initHighlighter has been executed
  shEngine,   \* getSingletonHighlighter has produced the engine
  shCount,    \* highlight calls completed
  shWarmed,   \* warmupHighlighter() has completed
  ciHistory,  \* CopilotChatInstance.history
  ciPhase,    \* "idle", or "streaming" while the effect of an ask() runs
  ciUser,     \* userMessage of the latest ask()
  ciSystem,   \* options.system of the latest ask(), empty when not given
  ciMessages, \* the messages the latest ask() handed to chatStream
  ciAcc,      \* the accumulator of Stream.runFold
  ciLog,      \* the (userMessage, fullResponse) of every ask() that succeeded
  ciCount,    \* ask() calls completed
  ciModel,    \* this.model
  ciSentModel, \* the model the latest ask() handed to chatStream
  ciSets,     \* setModel() calls made
  mrMade,     \* ModelResolver.make has returned the resolver
  mrCache,    \* ModelResolver.cache
  mrNow,      \* Date.now(), in ticks
  mrFetches,  \* the lists the fetcher has returned, in call order
  mrReturned, \* the lists listModels() and resolve() have worked with
  fmModels,   \* the models argument of filterModels
  fmQuery,    \* its query argument
  fmResult,   \* what it returned
  fmDone,     \* it has been called
  plPhase,      \* where handleLine is with the current response
  plSubmitting, \* isSubmitting
  plDeltas,     \* deltas the stream of the current response has delivered
  plOpen,       \* deltas whose onChunk effect has started and not completed
  plEvents,     \* the calls on the StreamBuffer of the current response
  plResponses,  \* lines submitted so far
  rfCount,      \* flush() calls made on a buffer that is used on after flush
  rfLast,       \* the latest call on it: "none", "write", "flush", "reflush"
  rfFlushOut,   \* what the latest flush() emitted and highlighted
  rfSince,      \* what the buffer has emitted since the latest flush()
  rfShadow,     \* a buffer created at the latest flush() and given the same writes
  rfShadowOut,  \* what that buffer has emitted
  auCache,      \* ~/.config/copilot-scripts/tokens.json
  auConfig,     \* the oauth_token of an existing Copilot config, <<>> if none
  auNow,        \* Date.now() / 1000, in ticks
  auBefore,     \* tokens.json as the latest getBearerToken() loaded it
  auAt,         \* the time the latest getBearerToken() read
  auRequests,   \* the network requests the latest getBearerToken() made
  auFetched,    \* the latest response of the bearer-token endpoint
  auResult,     \* how the latest getBearerToken() ended
  auLog,        \* every network request made, in order
  auCalls,      \* getBearerToken() calls made
  spinnerTimer,   \* the interval timer of the spinner: 0 is null, else the
                  \* number of the request whose startSpinner() set it
  spinnerStopped, \* the flag stopSpinner() sets
  frameIdx,       \* the frame the timer callback writes next
  spPhase,        \* the current request: "idle", "waiting" (no chunk yet),
                  \* "streaming" (a chunk has been written), "done", "failed"
  spRequests,     \* chat messages submitted so far
  spChunks,       \* chunks of the current response written so far
  cbText,       \* the text written to the class-based StreamBuffer
  cbPos,        \* how much of it has been written
  cbBuf,        \* the fields of the class-based StreamBuffer
  cbOut,        \* the text it has passed to onWrite
  cbCalls,      \* the highlightCode calls it has made
  cbBefore,     \* its fields when flush() was called
  cbFlushOut,   \* what flush() passed to onWrite
  cbFlushed     \* flush() has been called

sbVars == <<text, pos, ref, output, hlCalls, lastSteps, stuck, flushed>>
sseVars == <<sseStream, ssePos, sseBuffer, sseEvents, sseErrors, sseStatus, sseLastRead>>
deltaVars == <<dChunk, dApi, dOut, dText>>
chatVars == <<useResponses, chatVersion, chatPhase, chatRequests, chatDeltas,
              chatCount>>
shVars == <<shCode, shLang, shExit, shCause, shInitRuns, shEngine, shCount,
            shWarmed>>
ciVars == <<ciHistory, ciPhase, ciUser, ciSystem, ciMessages, ciAcc, ciLog,
            ciCount, ciModel, ciSentModel, ciSets>>
mrVars == <<mrMade, mrCache, mrNow, mrFetches, mrReturned>>
fmVars == <<fmModels, fmQuery, fmResult, fmDone>>
plVars == <<plPhase, plSubmitting, plDeltas, plOpen, plEvents, plResponses>>
rfVars == <<rfCount, rfLast, rfFlushOut, rfSince, rfShadow, rfShadowOut>>
auVars == <<auCache, auConfig, auNow, auBefore, auAt, auRequests, auFetched,
            auResult, auLog, auCalls>>
spVars == <<spinnerTimer, spinnerStopped, frameIdx, spPhase, spRequests, spChunks>>
cbVars == <<cbText, cbPos, cbBuf, cbOut, cbCalls, cbBefore, cbFlushOut, cbFlushed>>
vars == <<sbVars, sseVars, deltaVars, chatVars, shVars, ciVars, mrVars, fmVars, plVars, rfVars, auVars, spVars, cbVars>>

\* ------------------------------------------------------------------------
\* Bounds of the model
\* ------------------------------------------------------------------------
\* longest text of the exhaustive family (every string over Alphabet)
MaxLen == 5
\* most lines in a text of the document family
MaxDocLines == 3
\* most loop iterations one write() is given before it is declared stuck
MaxSteps == 12
\* most complete lines in an event stream
MaxSseLines == 3
\* most events one endpoint's stream delivers
MaxEvents == 2
\* longest code handed to the highlighter
MaxCodeLen == 3
\* most highlighter calls in one process
MaxCalls == 2
\* most ask() calls on one chat instance
MaxAsks == 2
\* most text deltas in one response
MaxDeltas == 2
\* the last tick of the clock of a session
MaxTime == 4
\* most listModels() and resolve() calls in a session
MaxLookups == 3
\* longest query handed to filterModels
MaxQueryLen == 3
\* longest model list handed to filterModels
MaxModels == 2
\* lines submitted to the chat shell in a session
MaxResponses == 4
\* most deltas in one streamed response
MaxPipeDeltas == 4
\* most setModel() calls on a chat instance
MaxSets == 2
\* flush() calls on a buffer that is used on after flush
MaxFlushes == 2
\* longest free text, and most lines of a document, written to such a buffer
MaxReuseLen == 3
MaxReuseLines == 2

\* ------------------------------------------------------------------------
\* Characters and strings
\* ------------------------------------------------------------------------
\* the backtick character (U+0060), written as a symbol
TICK == "BT"
NL == "\n"
\* stand-ins for the classes the regular expressions distinguish:
\* \w ("a", "b") and [ \t] (" ")
WordChars == {"a", "b"}
BlankChars == {" "}
Alphabet == {TICK, NL, "a", " "}
\* the colour escapes colorToAnsi() and the reset produce, as single symbols
ESC == "ESC"
RESET == "RESET"
PLAINTEXT == <<"p", "l", "a", "i", "n", "t", "e", "x", "t">>

\* JS String.prototype.substring(from) / substring(from, to), 0-based
Substring(s, from, to) == SubSeq(s, from + 1, to)
SubstringFrom(s, from) == SubSeq(s, from + 1, Len(s))

\* JS String.prototype.indexOf("\n"), 0-based, -1 when absent
IndexOfNL(s) ==
  IF \E i \in 1..Len(s) : s[i] = NL
  THEN (CHOOSE i \in 1..Len(s) : s[i] = NL /\ \A j \in 1..(i - 1) : s[j] # NL) - 1
  ELSE -1

\* s has three backticks at 0-based offset f
TicksAt(s, f) ==
  /\ f + 3 <= Len(s)
  /\ s[f + 1] = TICK /\ s[f + 2] = TICK /\ s[f + 3] = TICK

\* length of the greedy \w* run of s at 0-based offset f
RECURSIVE WordRun(_, _)
WordRun(s, f) ==
  IF f + 1 <= Len(s) /\ s[f + 1] \in WordChars THEN 1 + WordRun(s, f + 1) ELSE 0

\* (^|\n) : 0-based offset f is the start of the string or follows a newline
AtLineStart(s, f) == f = 0 \/ s[f] = NL

\* /^[ \t]*$/ on the suffix of s from 0-based offset f
OnlyBlanksFrom(s, f) == \A i \in (f + 1)..Len(s) : s[i] \in BlankChars

\* Option<string>
None == [some |-> FALSE, value |-> <<>>]
Some(v) == [some |-> TRUE, value |-> v]
GetOrElse(o, d) == IF o.some THEN o.value ELSE d
\* variant: a fence without a language word gives the empty language
LangOption_Always(lang) == Some(lang)
\* lang ? Option.some(lang) : Option.none()
LangOption(lang) == IF lang # <<>> THEN Some(lang) ELSE None

\* ------------------------------------------------------------------------
\* Syntax highlighter, as the StreamBuffer uses it
\* ------------------------------------------------------------------------
\* SyntaxHighlighter.highlight: empty code gives empty output; otherwise the
\* tokens of the line, wrapped in a colour escape and a reset.
Highlight(code, lang) ==
  IF code = <<>> THEN <<>> ELSE <<ESC>> \o code \o <<RESET>>

\* the text left when the colour escapes are removed
RECURSIVE StripAnsi(_)
StripAnsi(s) ==
  IF s = <<>> THEN <<>>
  ELSE IF Head(s) \in {ESC, RESET} THEN StripAnsi(Tail(s))
  ELSE <<Head(s)>> \o StripAnsi(Tail(s))

\* ------------------------------------------------------------------------
\* StreamBuffer (Effect-based)
\* ------------------------------------------------------------------------
\* BufferState, with the two things the callbacks observe: the text handed
\* to onWrite so far and the calls made to the highlighter.
initialState ==
  [state |-> "NORMAL", lineBuffer |-> <<>>, language |-> None, pending |-> <<>>]

\* const highlight = (code, lang) => highlighter.highlight(code, getOrElse(lang, "plaintext"))
highlight(code, lang) == Highlight(code, GetOrElse(lang, PLAINTEXT))
HighlightCall(code, lang) == [code |-> code, lang |-> GetOrElse(lang, PLAINTEXT)]

\* /(^|\n)```(\w*)(\n)/ : the 0-based offsets of the three backticks of a match
FenceMatches(p) ==
  {f \in 0..Len(p) :
     /\ AtLineStart(p, f)
     /\ TicksAt(p, f)
     /\ f + 3 + WordRun(p, f + 3) + 1 <= Len(p)
     /\ p[f + 3 + WordRun(p, f + 3) + 1] = NL}

\* /(^|\n)```\w*$/ : the 0-based offsets of the three backticks of a match
PartialFenceMatches(p) ==
  {f \in 0..Len(p) :
     /\ AtLineStart(p, f)
     /\ TicksAt(p, f)
     /\ f + 3 + WordRun(p, f + 3) = Len(p)}

\* /(\n`{1,2}|^`{1,2})$/ : the 0-based index of the match, -1 when none
TrailingFenceIndex(p) ==
  LET n == Len(p) IN
  IF n >= 2 /\ p[n - 1] = NL /\ p[n] = TICK THEN n - 2
  ELSE IF n >= 3 /\ p[n - 2] = NL /\ p[n - 1] = TICK /\ p[n] = TICK THEN n - 3
  ELSE IF p = <<TICK>> \/ p = <<TICK, TICK>> THEN 0
  ELSE -1

MinOf(S) == CHOOSE x \in S : \A y \in S : x <= y

\* A step returns the next BufferState, the processed flag, the text it
\* passed to onWrite and the highlighter calls it made.
StepResult(processed, next, emitted, calls) ==
  [processed |-> processed, next |-> next, emitted |-> emitted, calls |-> calls]

processNormalState(current) ==
  LET p == current.pending IN
  IF FenceMatches(p) # {} THEN
    LET fenceIndex == MinOf(FenceMatches(p))
        lang == Substring(p, fenceIndex + 3, fenceIndex + 3 + WordRun(p, fenceIndex + 3))
        fenceLineEnd == fenceIndex + 3 + Len(lang) + 1
    IN StepResult(TRUE,
         [state |-> "CODE_BLOCK", lineBuffer |-> <<>>,
          language |-> LangOption(lang), pending |-> SubstringFrom(p, fenceLineEnd)],
         Substring(p, 0, fenceIndex), <<>>)
  ELSE IF PartialFenceMatches(p) # {} THEN
    LET fenceIndex == MinOf(PartialFenceMatches(p))
    IN StepResult(FALSE,
         [current EXCEPT !.state = "CODE_FENCE_OPENING",
                         !.pending = SubstringFrom(p, fenceIndex)],
         Substring(p, 0, fenceIndex), <<>>)
  ELSE IF TrailingFenceIndex(p) # -1 THEN
    LET safeEnd == TrailingFenceIndex(p)
    IN StepResult(FALSE,
         [current EXCEPT !.pending = SubstringFrom(p, safeEnd)],
         Substring(p, 0, safeEnd), <<>>)
  ELSE StepResult(FALSE, [current EXCEPT !.pending = <<>>], p, <<>>)

\* variant: the language word of a fence completed by a later write is lost
processCodeFenceOpeningState_NoLang(current) ==
  LET p == current.pending
      newlineIndex == IndexOfNL(p)
  IN
  IF newlineIndex = -1 THEN StepResult(FALSE, current, <<>>, <<>>)
  ELSE StepResult(TRUE,
         [state |-> "CODE_BLOCK", lineBuffer |-> <<>>,
          language |-> None, pending |-> SubstringFrom(p, newlineIndex + 1)],
         <<>>, <<>>)

\* variant: progress is reported while the fence line is still incomplete
processCodeFenceOpeningState_Spin(current) ==
  LET p == current.pending
      newlineIndex == IndexOfNL(p)
  IN
  IF newlineIndex = -1 THEN StepResult(TRUE, current, <<>>, <<>>)
  ELSE
    LET fenceLine == Substring(p, 0, newlineIndex)
        lang == IF TicksAt(fenceLine, 0)
                THEN Substring(fenceLine, 3, 3 + WordRun(fenceLine, 3))
                ELSE <<>>
    IN StepResult(TRUE,
         [state |-> "CODE_BLOCK", lineBuffer |-> <<>>,
          language |-> LangOption(lang), pending |-> SubstringFrom(p, newlineIndex + 1)],
         <<>>, <<>>)

processCodeFenceOpeningState(current) ==
  LET p == current.pending
      newlineIndex == IndexOfNL(p)
  IN
  IF newlineIndex = -1 THEN StepResult(FALSE, current, <<>>, <<>>)
  ELSE
    LET fenceLine == Substring(p, 0, newlineIndex)
        \* /^```(\w*)/ ; no match gives the empty language
        lang == IF TicksAt(fenceLine, 0)
                THEN Substring(fenceLine, 3, 3 + WordRun(fenceLine, 3))
                ELSE <<>>
    IN StepResult(TRUE,
         [state |-> "CODE_BLOCK", lineBuffer |-> <<>>,
          language |-> LangOption(lang), pending |-> SubstringFrom(p, newlineIndex + 1)],
         <<>>, <<>>)

\* variant: a closing fence followed by blanks is not recognised
IsCloseFence_NoBlanks(line) == line = <<TICK, TICK, TICK>>

\* /^```[ \t]*$/
IsCloseFence(line) == TicksAt(line, 0) /\ OnlyBlanksFrom(line, 3)

\* variant: the newline after a highlighted code line is not written
codeLine_NoNewline(fullLine, language) == highlight(fullLine, language)

\* onWrite(highlighted + "\n")
codeLine(fullLine, language) == highlight(fullLine, language) \o <<NL>>

\* variant: the part of a code line that has arrived is highlighted at once
processCodeBlockState_Eager(current) ==
  LET p == current.pending
      newlineIndex == IndexOfNL(p)
  IN
  IF newlineIndex = -1 THEN
    \* both branches of the /^`{1,3}[ \t]*$/ test return the same state
    StepResult(FALSE,
      [current EXCEPT !.lineBuffer = current.lineBuffer \o p, !.pending = <<>>],
      <<>>, <<HighlightCall(current.lineBuffer \o p, current.language)>>)
  ELSE
    LET lineContent == Substring(p, 0, newlineIndex)
        fullLine == current.lineBuffer \o lineContent
        remaining == SubstringFrom(p, newlineIndex + 1)
    IN
    IF IsCloseFence(fullLine) THEN
      StepResult(TRUE,
        [state |-> "NORMAL", lineBuffer |-> <<>>, language |-> None, pending |-> remaining],
        <<>>, <<>>)
    ELSE
      StepResult(TRUE,
        [current EXCEPT !.lineBuffer = <<>>, !.pending = remaining],
        codeLine(fullLine, current.language),
        <<HighlightCall(fullLine, current.language)>>)

\* variant: a code line without its newline is left in pending
processCodeBlockState_KeepPending(current) ==
  LET p == current.pending
      newlineIndex == IndexOfNL(p)
  IN
  IF newlineIndex = -1 THEN
    StepResult(FALSE, current, <<>>, <<>>)
  ELSE
    LET lineContent == Substring(p, 0, newlineIndex)
        fullLine == current.lineBuffer \o lineContent
        remaining == SubstringFrom(p, newlineIndex + 1)
    IN
    IF IsCloseFence(fullLine) THEN
      StepResult(TRUE,
        [state |-> "NORMAL", lineBuffer |-> <<>>, language |-> None, pending |-> remaining],
        <<>>, <<>>)
    ELSE
      StepResult(TRUE,
        [current EXCEPT !.lineBuffer = <<>>, !.pending = remaining],
        codeLine(fullLine, current.language),
        <<HighlightCall(fullLine, current.language)>>)

processCodeBlockState(current) ==
  LET p == current.pending
      newlineIndex == IndexOfNL(p)
  IN
  IF newlineIndex = -1 THEN
    \* both branches of the /^`{1,3}[ \t]*$/ test return the same state
    StepResult(FALSE,
      [current EXCEPT !.lineBuffer = current.lineBuffer \o p, !.pending = <<>>],
      <<>>, <<>>)
  ELSE
    LET lineContent == Substring(p, 0, newlineIndex)
        fullLine == current.lineBuffer \o lineContent
        remaining == SubstringFrom(p, newlineIndex + 1)
    IN
    IF IsCloseFence(fullLine) THEN
      StepResult(TRUE,
        [state |-> "NORMAL", lineBuffer |-> <<>>, language |-> None, pending |-> remaining],
        <<>>, <<>>)
    ELSE
      StepResult(TRUE,
        [current EXCEPT !.lineBuffer = <<>>, !.pending = remaining],
        codeLine(fullLine, current.language),
        <<HighlightCall(fullLine, current.language)>>)

processChunk(current) ==
  IF current.state = "NORMAL" THEN processNormalState(current)
  ELSE IF current.state = "CODE_FENCE_OPENING" THEN processCodeFenceOpeningState(current)
  ELSE processCodeBlockState(current)

\* The while loop of write(): run holds the BufferState, the text emitted and
\* the highlighter calls made so far in this write, and one record per
\* iteration: the processed flag, whether pending got shorter, whether a
\* line begun by an earlier write was carried in lineBuffer, the state name
\* before and after, the BufferState handed to processChunk, the one it
\* returned, and what the iteration emitted and highlighted. The loop is cut
\* off after MaxSteps iterations (stuck).
RECURSIVE WriteLoop(_, _)
WriteLoop(run, fuel) ==
  IF Len(run.buf.pending) = 0 THEN run
  ELSE IF fuel = 0 THEN [run EXCEPT !.stuck = TRUE]
  ELSE
    LET result == processChunk(run.buf)
        after == [buf |-> result.next,
                  emitted |-> run.emitted \o result.emitted,
                  calls |-> run.calls \o result.calls,
                  steps |-> Append(run.steps,
                             [processed |-> result.processed,
                              shrunk |-> Len(result.next.pending) < Len(run.buf.pending),
                              carried |-> Len(run.buf.lineBuffer) > 0,
                              from |-> run.buf.state,
                              to |-> result.next.state,
                              before |-> run.buf,
                              next |-> result.next,
                              emitted |-> result.emitted,
                              calls |-> result.calls]),
                  stuck |-> FALSE]
    IN IF result.processed THEN WriteLoop(after, fuel - 1) ELSE after

\* write(chunk) applied to BufferState s
write(s, chunk) ==
  WriteLoop([buf |-> [s EXCEPT !.pending = s.pending \o chunk],
             emitted |-> <<>>, calls |-> <<>>, steps |-> <<>>, stuck |-> FALSE],
            MaxSteps)

\* flush() applied to BufferState current: the text emitted and the calls made
\* variant: the unterminated last code line is dropped
flushCode_Drop(current) == <<>>
\* variant: the withheld text is dropped
flushPending_Drop(current) == <<>>

flushCode(current) ==
  IF current.state = "CODE_BLOCK" /\ Len(current.lineBuffer) > 0
  THEN highlight(current.lineBuffer, current.language) ELSE <<>>
flushCalls(current) ==
  IF current.state = "CODE_BLOCK" /\ Len(current.lineBuffer) > 0
  THEN <<HighlightCall(current.lineBuffer, current.language)>> ELSE <<>>
flushPending(current) ==
  IF Len(current.pending) > 0 THEN current.pending ELSE <<>>
\* variant: flush leaves the BufferState as it is
flush_KeepState(current) ==
  [buf |-> current,
   emitted |-> flushCode(current) \o flushPending(current),
   calls |-> flushCalls(current)]

flush(current) ==
  [buf |-> initialState,
   emitted |-> flushCode(current) \o flushPending(current),
   calls |-> flushCalls(current)]


\* ------------------------------------------------------------------------
\* The response texts the model streams
\* ------------------------------------------------------------------------
RECURSIVE Strings(_)
Strings(n) ==
  IF n = 0 THEN {<<>>}
  ELSE LET S == Strings(n - 1) IN S \cup {Append(t, c) : t \in S, c \in Alphabet}

DocLines ==
  { <<"a", NL>>,
    <<TICK, TICK, TICK, NL>>,
    <<TICK, TICK, TICK, "a", "b", NL>>,
    <<TICK, TICK, TICK, " ", NL>> }
DocTails == { <<>>, <<"b">> }

RECURSIVE DocBodies(_)
DocBodies(n) ==
  IF n = 0 THEN {<<>>}
  ELSE LET S == DocBodies(n - 1) IN S \cup {t \o l : t \in S, l \in DocLines}

Docs == {t \o e : t \in DocBodies(MaxDocLines), e \in DocTails}

Texts == Strings(MaxLen) \cup Docs

written == SubSeq(text, 1, pos)

\* ------------------------------------------------------------------------
\* Specification of the StreamBuffer fed with the deltas of one response
\* ------------------------------------------------------------------------
sbInit ==
  /\ pos = 0
  /\ ref = initialState
  /\ output = <<>>
  /\ hlCalls = <<>>
  /\ lastSteps = <<>>
  /\ stuck = FALSE
  /\ flushed = FALSE

sseInit ==
  /\ ssePos = 0
  /\ sseBuffer = <<>>
  /\ sseEvents = <<>>
  /\ sseErrors = <<>>
  /\ sseStatus = "reading"
  /\ sseLastRead = "none"

\* the delta extraction before any event, and chatStream before any call
deltaInit ==
  /\ dApi = "none"
  /\ dOut = [emitted |-> <<>>, threw |-> FALSE]
  /\ dText = [k |-> "uncalled"]

chatInit ==
  /\ chatPhase = "start"
  /\ chatRequests = <<>>
  /\ chatDeltas = <<>>
  /\ chatCount = 0

\* the highlighter of a fresh process: no call made, no engine
shInit ==
  /\ shCode = <<>>
  /\ shLang = ""
  /\ shExit = [tag |-> "Pending", value |-> <<>>]
  /\ shCause = "none"
  /\ shInitRuns = 0
  /\ shEngine = FALSE
  /\ shCount = 0
  /\ shWarmed = FALSE

\* new CopilotChatInstance(copilot, model)
ciInit ==
  /\ ciHistory = <<>>
  /\ ciPhase = "idle"
  /\ ciUser = <<>>
  /\ ciSystem = <<>>
  /\ ciMessages = <<>>
  /\ ciAcc = <<>>
  /\ ciLog = <<>>
  /\ ciCount = 0
  /\ ciModel = "gpt"
  /\ ciSentModel = "none"
  /\ ciSets = 0

ciIdle == ciInit

\* before ModelResolver.make: no resolver, no cache
mrInit ==
  /\ mrMade = FALSE
  /\ mrCache = [some |-> FALSE, models |-> <<>>, expiresAt |-> 0]
  /\ mrNow = 0
  /\ mrFetches = <<>>
  /\ mrReturned = <<>>

mrIdle == mrInit

\* filterModels before it is called
fmInit ==
  /\ fmResult = <<>>
  /\ fmDone = FALSE

fmIdle == fmModels = <<>> /\ fmQuery = <<>> /\ fmInit

\* the chat shell before a line is submitted
plInit ==
  /\ plPhase = "idle"
  /\ plSubmitting = FALSE
  /\ plDeltas = 0
  /\ plOpen = {}
  /\ plEvents = <<>>
  /\ plResponses = 0

plIdle == plInit

\* a buffer that has not been flushed yet
rfInit ==
  /\ rfCount = 0
  /\ rfLast = "none"
  /\ rfFlushOut = [emitted |-> <<>>, calls |-> <<>>]
  /\ rfSince = <<>>
  /\ rfShadow = initialState
  /\ rfShadowOut = <<>>

rfIdle == rfInit

\* tokens.json does not exist, nothing has been asked of the AuthService
auInit ==
  /\ auCache = [exists |-> FALSE, oauth_token |-> <<>>, bearer_token |-> <<>>, expires_at |-> 0]
  /\ auNow = 1
  /\ auBefore = auCache
  /\ auAt = 0
  /\ auRequests = <<>>
  /\ auFetched = [token |-> <<>>, expires_at |-> 0]
  /\ auResult = [ok |-> FALSE, token |-> <<>>]
  /\ auLog = <<>>
  /\ auCalls = 0

auIdle == auConfig = <<>> /\ auInit

\* the chat shell has started, nothing has been submitted
spInit ==
  /\ spinnerTimer = 0
  /\ spinnerStopped = FALSE
  /\ frameIdx = 0
  /\ spPhase = "idle"
  /\ spRequests = 0
  /\ spChunks = 0

spIdle == spInit

\* new StreamBuffer(onWrite): the field initialisers
classInitial ==
  [state |-> "NORMAL", buffer |-> <<>>, language |-> <<>>, pendingChunk |-> <<>>]

cbInit ==
  /\ cbPos = 0
  /\ cbBuf = classInitial
  /\ cbOut = <<>>
  /\ cbCalls = <<>>
  /\ cbBefore = classInitial
  /\ cbFlushOut = <<>>
  /\ cbFlushed = FALSE

cbIdle == cbText = <<>> /\ cbInit

\* the components a specification does not exercise stay as constructed
deltaIdle == dChunk = [k |-> "null"] /\ deltaInit
chatIdle == useResponses = FALSE /\ chatVersion = "effect" /\ chatInit

Init ==
  /\ text \in Texts
  /\ sbInit
  /\ cbIdle
  /\ spIdle
  /\ auIdle
  /\ rfIdle
  /\ plIdle
  /\ fmIdle
  /\ mrIdle
  /\ ciIdle
  /\ sseStream = <<>>
  /\ sseInit
  /\ deltaIdle
  /\ chatIdle
  /\ shInit

\* buffer.write(chunk) for the next delta of the response (possibly empty)
Write ==
  /\ ~flushed
  /\ \E n \in 0..(Len(text) - pos) :
       LET run == write(ref, SubSeq(text, pos + 1, pos + n)) IN
       /\ pos' = pos + n
       /\ ref' = run.buf
       /\ output' = output \o run.emitted
       /\ hlCalls' = hlCalls \o run.calls
       /\ lastSteps' = run.steps
       /\ stuck' = run.stuck
  /\ UNCHANGED <<text, flushed>>
  /\ UNCHANGED <<sseVars, deltaVars, chatVars, shVars, ciVars, mrVars, fmVars, plVars, rfVars, auVars, spVars, cbVars>>

\* buffer.flush() at the end of the response
Flush ==
  /\ ~flushed
  /\ pos = Len(text)
  /\ LET f == flush(ref) IN
       /\ ref' = f.buf
       /\ output' = output \o f.emitted
       /\ hlCalls' = hlCalls \o f.calls
  /\ flushed' = TRUE
  /\ UNCHANGED <<text, pos, lastSteps, stuck>>
  /\ UNCHANGED <<sseVars, deltaVars, chatVars, shVars, ciVars, mrVars, fmVars, plVars, rfVars, auVars, spVars, cbVars>>

Next == Write \/ Flush

Spec == Init /\ [][Next]_vars

\* ------------------------------------------------------------------------
\* parseSSE: the event decoder
\* ------------------------------------------------------------------------
\* The stream is a sequence of symbols: the newline, a blank, the words
\* "data" and "event", the colon, the sentinel "[DONE]", a JSON digit "1"
\* and a character "x" no JSON text contains. The prefix "data:" is two
\* symbols, so a chunk can end inside it and slice(5) drops two symbols.
DATA == <<"data", ":">>
EVENT == <<"event", ":">>
COLON == <<":">>
DONE == "[DONE]"
SseBlank == {" "}

\* String.prototype.trim()
RECURSIVE TrimStart(_)
TrimStart(s) ==
  IF s # <<>> /\ Head(s) \in SseBlank THEN TrimStart(Tail(s)) ELSE s
RECURSIVE TrimEnd(_)
TrimEnd(s) ==
  IF s # <<>> /\ s[Len(s)] \in SseBlank THEN TrimEnd(SubSeq(s, 1, Len(s) - 1)) ELSE s
Trim(s) == TrimEnd(TrimStart(s))

StartsWith(s, prefix) ==
  Len(s) >= Len(prefix) /\ SubSeq(s, 1, Len(prefix)) = prefix
\* trimmed.slice(5): the text after the "data:" prefix
SliceData(s) == SubSeq(s, Len(DATA) + 1, Len(s))

\* JSON.parse succeeds on a number; it throws on anything else the model's
\* symbols can spell
JsonValid(data) == data # <<>> /\ \A i \in 1..Len(data) : data[i] = "1"

\* buffer.split('\n'): the pieces between the newlines, the last one being
\* the text after the last newline
RECURSIVE Split(_)
Split(s) ==
  LET i == IndexOfNL(s) IN
  IF i = -1 THEN <<s>>
  ELSE <<SubSeq(s, 1, i)>> \o Split(SubSeq(s, i + 2, Len(s)))

\* variant: the loop goes on to the next line after a [DONE] payload
RECURSIVE ProcessLines_PastDone(_, _)
ProcessLines_PastDone(lines, acc) ==
  IF lines = <<>> THEN acc
  ELSE
    LET trimmed == Trim(Head(lines)) IN
    IF trimmed = <<>> \/ StartsWith(trimmed, COLON) \/ StartsWith(trimmed, EVENT)
    THEN ProcessLines_PastDone(Tail(lines), acc)
    ELSE IF StartsWith(trimmed, DATA) THEN
      LET data == Trim(SliceData(trimmed)) IN
      IF data = <<DONE>>
      THEN ProcessLines_PastDone(Tail(lines), [acc EXCEPT !.returned = TRUE])
      ELSE IF JsonValid(data)
      THEN ProcessLines_PastDone(Tail(lines), [acc EXCEPT !.events = Append(@, data)])
      ELSE ProcessLines_PastDone(Tail(lines), [acc EXCEPT !.errors = Append(@, data)])
    ELSE ProcessLines_PastDone(Tail(lines), acc)

\* variant: a payload JSON.parse rejects ends the generator
RECURSIVE ProcessLines_Abort(_, _)
ProcessLines_Abort(lines, acc) ==
  IF lines = <<>> THEN acc
  ELSE
    LET trimmed == Trim(Head(lines)) IN
    IF trimmed = <<>> \/ StartsWith(trimmed, COLON) \/ StartsWith(trimmed, EVENT)
    THEN ProcessLines_Abort(Tail(lines), acc)
    ELSE IF StartsWith(trimmed, DATA) THEN
      LET data == Trim(SliceData(trimmed)) IN
      IF data = <<DONE>> THEN [acc EXCEPT !.returned = TRUE]
      ELSE IF JsonValid(data)
      THEN ProcessLines_Abort(Tail(lines), [acc EXCEPT !.events = Append(@, data)])
      ELSE [acc EXCEPT !.errors = Append(@, data), !.returned = TRUE]
    ELSE ProcessLines_Abort(Tail(lines), acc)

\* The for loop over the complete lines: acc holds the events yielded, the
\* payloads logged, and whether the generator returned on [DONE].
RECURSIVE ProcessLines(_, _)
ProcessLines(lines, acc) ==
  IF lines = <<>> THEN acc
  ELSE
    LET trimmed == Trim(Head(lines)) IN
    IF trimmed = <<>> \/ StartsWith(trimmed, COLON) \/ StartsWith(trimmed, EVENT)
    THEN ProcessLines(Tail(lines), acc)
    ELSE IF StartsWith(trimmed, DATA) THEN
      LET data == Trim(SliceData(trimmed)) IN
      IF data = <<DONE>> THEN [acc EXCEPT !.returned = TRUE]
      ELSE IF JsonValid(data)
      THEN ProcessLines(Tail(lines), [acc EXCEPT !.events = Append(@, data)])
      ELSE ProcessLines(Tail(lines), [acc EXCEPT !.errors = Append(@, data)])
    ELSE ProcessLines(Tail(lines), acc)

\* the streams the model delivers: complete lines and an unterminated tail
SseLines ==
  { DATA \o <<" ", "1", NL>>,
    DATA \o <<"1", "1", NL>>,
    DATA \o <<"x", NL>>,
    COLON \o <<"1", NL>>,
    EVENT \o <<"1", NL>>,
    <<NL>>,
    DATA \o <<" ", DONE, NL>> }
SseTails == { <<>>, DATA \o <<"1">>, DATA }

RECURSIVE SseBodies(_)
SseBodies(n) ==
  IF n = 0 THEN {<<>>}
  ELSE LET S == SseBodies(n - 1) IN S \cup {t \o l : t \in S, l \in SseLines}

SseStreams == {t \o e : t \in SseBodies(MaxSseLines), e \in SseTails}

sseReceived == SubSeq(sseStream, 1, ssePos)

\* variant: the piece after the last newline is not kept for the next read
SseRead_DropPartial ==
  /\ sseStatus = "reading"
  /\ \E n \in 1..(Len(sseStream) - ssePos) :
       LET lines == Split(sseBuffer \o SubSeq(sseStream, ssePos + 1, ssePos + n))
           acc == ProcessLines(lines,
                               [events |-> <<>>, errors |-> <<>>, returned |-> FALSE])
       IN /\ ssePos' = ssePos + n
          /\ sseBuffer' = <<>>
          /\ sseEvents' = sseEvents \o acc.events
          /\ sseErrors' = sseErrors \o acc.errors
          /\ sseStatus' = IF acc.returned THEN "returned" ELSE "reading"
  /\ sseLastRead' = "chunk"
  /\ UNCHANGED sseStream
  /\ UNCHANGED <<sbVars, deltaVars, chatVars, shVars, ciVars, mrVars, fmVars, plVars, rfVars, auVars, spVars, cbVars>>

\* One iteration of the while loop in which reader.read() returns a chunk:
\* the chunk is appended to the buffer, the complete lines are processed and
\* the last piece stays in the buffer; on [DONE] the generator returns.
SseRead ==
  /\ sseStatus = "reading"
  /\ \E n \in 1..(Len(sseStream) - ssePos) :
       LET lines == Split(sseBuffer \o SubSeq(sseStream, ssePos + 1, ssePos + n))
           acc == ProcessLines(SubSeq(lines, 1, Len(lines) - 1),
                               [events |-> <<>>, errors |-> <<>>, returned |-> FALSE])
       IN /\ ssePos' = ssePos + n
          /\ sseBuffer' = lines[Len(lines)]
          /\ sseEvents' = sseEvents \o acc.events
          /\ sseErrors' = sseErrors \o acc.errors
          /\ sseStatus' = IF acc.returned THEN "returned" ELSE "reading"
  /\ sseLastRead' = "chunk"
  /\ UNCHANGED sseStream
  /\ UNCHANGED <<sbVars, deltaVars, chatVars, shVars, ciVars, mrVars, fmVars, plVars, rfVars, auVars, spVars, cbVars>>

\* reader.read() reports done: the loop is left and the generator ends
SseClose ==
  /\ sseStatus = "reading"
  /\ ssePos = Len(sseStream)
  /\ sseStatus' = "closed"
  /\ sseLastRead' = "done"
  /\ UNCHANGED <<sseStream, ssePos, sseBuffer, sseEvents, sseErrors>>
  /\ UNCHANGED <<sbVars, deltaVars, chatVars, shVars, ciVars, mrVars, fmVars, plVars, rfVars, auVars, spVars, cbVars>>

\* variant: a rejected read is swallowed and the loop reads again
SseReadFail_Retry ==
  /\ sseStatus = "reading"
  /\ sseLastRead # "error"
  /\ sseLastRead' = "error"
  /\ UNCHANGED <<sseStream, ssePos, sseBuffer, sseEvents, sseErrors, sseStatus>>
  /\ UNCHANGED <<sbVars, deltaVars, chatVars, shVars, ciVars, mrVars, fmVars, plVars, rfVars, auVars, spVars, cbVars>>

\* await reader.read() is rejected: nothing catches it, the generator throws
\* to its consumer and is finished
SseReadFail ==
  /\ sseStatus = "reading"
  /\ sseStatus' = "failed"
  /\ sseLastRead' = "error"
  /\ UNCHANGED <<sseStream, ssePos, sseBuffer, sseEvents, sseErrors>>
  /\ UNCHANGED <<sbVars, deltaVars, chatVars, shVars, ciVars, mrVars, fmVars, plVars, rfVars, auVars, spVars, cbVars>>

SseInit ==
  /\ sseStream \in SseStreams
  /\ sseInit
  /\ text = <<>>
  /\ sbInit
  /\ cbIdle
  /\ spIdle
  /\ auIdle
  /\ rfIdle
  /\ plIdle
  /\ fmIdle
  /\ mrIdle
  /\ ciIdle
  /\ deltaIdle
  /\ chatIdle
  /\ shInit

SseNext == SseRead \/ SseClose \/ SseReadFail

SpecSSE == SseInit /\ [][SseNext]_vars

\* ------------------------------------------------------------------------
\* Protocol events: the JSON values the event decoder hands on
\* ------------------------------------------------------------------------
\* a value is a kind and a content: the characters of a string, the digits
\* of a number, the elements of an array, the properties of an object
JUndefined == [k |-> "undefined"]
JNull == [k |-> "null"]
JStr(s) == [k |-> "string", chars |-> s]
JNum(n) == [k |-> "number", digits |-> n]
JArr(a) == [k |-> "array", elements |-> a]
JObj(o) == [k |-> "object", properties |-> o]

\* a value read with neither . nor ?. can be read from
Nullish(x) == x.k \in {"undefined", "null"}

\* x.name for a value that is not nullish: an object's property, an array's
\* element, and undefined where there is none
Prop(x, name) ==
  IF x.k = "object" /\ name \in DOMAIN x.properties THEN x.properties[name]
  ELSE IF x.k = "array" /\ name = "0" /\ x.elements # <<>> THEN x.elements[1]
  ELSE JUndefined

\* x?.name
Opt(x, name) == IF Nullish(x) THEN JUndefined ELSE Prop(x, name)

\* the condition of if (x) and of x ? a : b
Truthy(x) ==
  CASE x.k \in {"undefined", "null"} -> FALSE
    [] x.k = "string" -> x.chars # <<>>
    [] x.k = "number" -> x.digits # <<"0">>
    [] OTHER -> TRUE

CONTENT_DELTA == JStr(<<"response.content.delta">>)
OUTPUT_TEXT_DELTA == JStr(<<"response.output_text.delta">>)

\* variant: delta.content is looked at before delta.text
extractTextFromDelta_ContentFirst(delta) ==
  IF delta.k = "string" THEN delta
  ELSE IF Truthy(Opt(delta, "content")) THEN Prop(delta, "content")
  ELSE IF Truthy(Opt(delta, "text")) THEN Prop(delta, "text")
  ELSE IF Truthy(Opt(delta, "output_text")) THEN
    LET output_text == Prop(delta, "output_text") IN
    IF output_text.k = "string" THEN output_text
    ELSE IF Truthy(Prop(output_text, "text")) THEN Prop(output_text, "text")
    ELSE JStr(<<>>)
  ELSE JStr(<<>>)

\* extractTextFromDelta(delta)
extractTextFromDelta(delta) ==
  IF delta.k = "string" THEN delta
  ELSE IF Truthy(Opt(delta, "text")) THEN Prop(delta, "text")
  ELSE IF Truthy(Opt(delta, "content")) THEN Prop(delta, "content")
  ELSE IF Truthy(Opt(delta, "output_text")) THEN
    LET output_text == Prop(delta, "output_text") IN
    IF output_text.k = "string" THEN output_text
    ELSE IF Truthy(Prop(output_text, "text")) THEN Prop(output_text, "text")
    ELSE JStr(<<>>)
  ELSE JStr(<<>>)

\* what a flatMap callback does with one chunk: the values of the stream it
\* returns, or that it threw (reading a property of null)
Emits(values) == [emitted |-> values, threw |-> FALSE]
Throws == [emitted |-> <<>>, threw |-> TRUE]

\* the callback of streamResponsesAPI
streamResponsesAPI(chunk) ==
  IF Nullish(chunk) THEN Throws
  ELSE IF Prop(chunk, "type") \in {CONTENT_DELTA, OUTPUT_TEXT_DELTA} THEN
    LET deltaText == extractTextFromDelta(Prop(chunk, "delta")) IN
    IF Truthy(deltaText) THEN Emits(<<deltaText>>) ELSE Emits(<<>>)
  ELSE Emits(<<>>)

\* what extractTextFromDelta returns inside the callback of
\* streamResponsesAPI, when the callback gets as far as calling it
extracted(chunk) ==
  IF ~Nullish(chunk) /\ Prop(chunk, "type") \in {CONTENT_DELTA, OUTPUT_TEXT_DELTA}
  THEN extractTextFromDelta(Prop(chunk, "delta"))
  ELSE [k |-> "uncalled"]

\* the callback of streamChatCompletions
streamChatCompletions(chunk) ==
  IF Nullish(chunk) THEN Throws
  ELSE
    LET content ==
          Opt(Opt(Opt(Prop(chunk, "choices"), "0"), "delta"), "content")
    IN IF Truthy(content) THEN Emits(<<content>>) ELSE Emits(<<>>)

\* the values a text field of an event can hold: absent, null, the empty
\* string, a text, a number
FieldVals(s) == {JUndefined, JNull, JStr(<<>>), JStr(<<s>>), JNum(<<"1">>)}

OutputTextVals ==
  FieldVals("o") \cup {JObj([text |-> x]) : x \in FieldVals("ot")}

DeltaVals ==
  FieldVals("d") \cup
  {JObj([text |-> a, content |-> b, output_text |-> c]) :
     a \in FieldVals("t"), b \in FieldVals("c"), c \in OutputTextVals}

EventTypes ==
  {CONTENT_DELTA, OUTPUT_TEXT_DELTA, JStr(<<"response.completed">>), JUndefined}

\* events of the /responses endpoint
ResponsesChunks ==
  {JObj([type |-> t, delta |-> d]) : t \in EventTypes, d \in DeltaVals}

ChoiceDeltaVals ==
  {JUndefined, JNull} \cup {JObj([content |-> c]) : c \in FieldVals("c")}

ChoicesVals ==
  {JUndefined, JNull, JArr(<<>>), JArr(<<JNull>>)} \cup
  {JArr(<<JObj([delta |-> d])>>) : d \in ChoiceDeltaVals}

\* events of the /chat/completions endpoint
CompletionsChunks == {JObj([choices |-> c]) : c \in ChoicesVals}

\* every value JSON.parse can have produced for a data line
Chunks == ResponsesChunks \cup CompletionsChunks \cup {JNull, JNum(<<"1">>)}

\* ------------------------------------------------------------------------
\* Specification of the delta extraction applied to one protocol event
\* ------------------------------------------------------------------------
\* the chunk reaches the callback of streamResponsesAPI
ResponsesChunk ==
  /\ dApi = "none"
  /\ dApi' = "/responses"
  /\ dOut' = streamResponsesAPI(dChunk)
  /\ dText' = extracted(dChunk)
  /\ UNCHANGED dChunk
  /\ UNCHANGED <<sbVars, sseVars, chatVars, shVars, ciVars, mrVars, fmVars, plVars, rfVars, auVars, spVars, cbVars>>

\* the chunk reaches the callback of streamChatCompletions
CompletionsChunk ==
  /\ dApi = "none"
  /\ dApi' = "/chat/completions"
  /\ dOut' = streamChatCompletions(dChunk)
  /\ UNCHANGED <<dChunk, dText>>
  /\ UNCHANGED <<sbVars, sseVars, chatVars, shVars, ciVars, mrVars, fmVars, plVars, rfVars, auVars, spVars, cbVars>>

DeltaInit ==
  /\ dChunk \in Chunks
  /\ deltaInit
  /\ text = <<>>
  /\ sbInit
  /\ cbIdle
  /\ spIdle
  /\ auIdle
  /\ rfIdle
  /\ plIdle
  /\ fmIdle
  /\ mrIdle
  /\ ciIdle
  /\ sseStream = <<>>
  /\ sseInit
  /\ chatIdle
  /\ shInit

DeltaNext == ResponsesChunk \/ CompletionsChunk

SpecDelta == DeltaInit /\ [][DeltaNext]_vars

\* ------------------------------------------------------------------------
\* Specification of chatStream: the endpoint fallback
\* ------------------------------------------------------------------------
RESPONSES == "/responses"
COMPLETIONS == "/chat/completions"

\* the events an endpoint's stream delivers in this specification: a text
\* delta of either endpoint, an event without text, and null
ChatChunks ==
  { JObj([type |-> OUTPUT_TEXT_DELTA, delta |-> JStr(<<"d">>)]),
    JObj([choices |-> JArr(<<JObj([delta |-> JObj([content |-> JStr(<<"c">>)])])>>)]),
    JObj([type |-> JStr(<<"response.completed">>), delta |-> JUndefined]),
    JNull }

\* the flatMap callback of the stream of an endpoint
Callback(endpoint, chunk) ==
  IF endpoint = RESPONSES THEN streamResponsesAPI(chunk)
  ELSE streamChatCompletions(chunk)

\* where chatStream goes when the stream it consumes ends abnormally, with
\* cause "fail" (an error in the stream's error channel: ApiError, AuthError,
\* FsError, ParseError) or "die" (an exception thrown by a callback).
\* chat.ts: Stream.catchAll recovers from the errors of the error channel of
\* the /responses stream only. The async generator: try/catch around the
\* /responses stream recovers from everything thrown there.
AfterFailure(version, phase, cause) ==
  IF phase = RESPONSES /\ (version = "generator" \/ cause = "fail")
  THEN COMPLETIONS
  ELSE IF version = "effect" /\ cause = "die" THEN "died"
  ELSE "failed"

\* the stream being consumed ends abnormally
Failure(cause) ==
  LET next == AfterFailure(chatVersion, chatPhase, cause) IN
  /\ chatPhase' = next
  /\ chatRequests' = IF next = COMPLETIONS
                     THEN Append(chatRequests, COMPLETIONS)
                     ELSE chatRequests
  /\ chatCount' = 0
  /\ UNCHANGED chatDeltas

\* chatStream(copilot, model, messages) is run: the first request
ChatStart ==
  /\ chatPhase = "start"
  /\ chatPhase' = IF useResponses THEN RESPONSES ELSE COMPLETIONS
  /\ chatRequests' = <<IF useResponses THEN RESPONSES ELSE COMPLETIONS>>
  /\ UNCHANGED <<useResponses, chatVersion, chatDeltas, chatCount>>
  /\ UNCHANGED <<sbVars, sseVars, deltaVars, shVars, ciVars, mrVars, fmVars, plVars, rfVars, auVars, spVars, cbVars>>

\* the endpoint being streamed delivers an event
ChatChunk ==
  /\ chatPhase \in {RESPONSES, COMPLETIONS}
  /\ chatCount < MaxEvents
  /\ \E chunk \in ChatChunks :
       LET r == Callback(chatPhase, chunk) IN
       IF r.threw THEN Failure("die")
       ELSE /\ chatDeltas' = chatDeltas \o r.emitted
            /\ chatCount' = chatCount + 1
            /\ UNCHANGED <<chatPhase, chatRequests>>
  /\ UNCHANGED <<useResponses, chatVersion>>
  /\ UNCHANGED <<sbVars, sseVars, deltaVars, shVars, ciVars, mrVars, fmVars, plVars, rfVars, auVars, spVars, cbVars>>

\* the request or the response body of the endpoint being streamed fails
ChatFail ==
  /\ chatPhase \in {RESPONSES, COMPLETIONS}
  /\ Failure("fail")
  /\ UNCHANGED <<useResponses, chatVersion>>
  /\ UNCHANGED <<sbVars, sseVars, deltaVars, shVars, ciVars, mrVars, fmVars, plVars, rfVars, auVars, spVars, cbVars>>

\* the stream of the endpoint being streamed ends
ChatEnd ==
  /\ chatPhase \in {RESPONSES, COMPLETIONS}
  /\ chatPhase' = "done"
  /\ UNCHANGED <<useResponses, chatVersion, chatRequests, chatDeltas, chatCount>>
  /\ UNCHANGED <<sbVars, sseVars, deltaVars, shVars, ciVars, mrVars, fmVars, plVars, rfVars, auVars, spVars, cbVars>>

ChatInit ==
  /\ useResponses \in BOOLEAN
  /\ chatVersion \in {"effect", "generator"}
  /\ chatInit
  /\ text = <<>>
  /\ sbInit
  /\ cbIdle
  /\ spIdle
  /\ auIdle
  /\ rfIdle
  /\ plIdle
  /\ fmIdle
  /\ mrIdle
  /\ ciIdle
  /\ sseStream = <<>>
  /\ sseInit
  /\ deltaIdle
  /\ shInit

ChatNext == ChatStart \/ ChatChunk \/ ChatFail \/ ChatEnd

SpecChat == ChatInit /\ [][ChatNext]_vars

\* ------------------------------------------------------------------------
\* SyntaxHighlighter (Effect-based)
\* ------------------------------------------------------------------------
\* language tags are whole words here; the code is a sequence of characters
LANGUAGE_ALIASES ==
  [js |-> "javascript", ts |-> "typescript", py |-> "python", rb |-> "ruby",
   sh |-> "bash", yml |-> "yaml", md |-> "markdown", rs |-> "rust",
   kt |-> "kotlin", cs |-> "csharp"]

SUPPORTED_LANGUAGES ==
  {"javascript", "typescript", "python", "java", "c", "cpp", "csharp", "go",
   "rust", "ruby", "php", "swift", "kotlin", "scala", "r", "bash", "shell",
   "powershell", "sql", "html", "css", "json", "yaml", "xml", "markdown",
   "plaintext"}

\* lang.toLowerCase(), on the tags of this model that have capitals
toLowerCase(lang) ==
  CASE lang = "JS" -> "js"
    [] lang = "Python" -> "python"
    [] OTHER -> lang

\* normalizeLanguage(lang)
normalizeLanguage(lang) ==
  LET normalized == toLowerCase(lang) IN
  IF normalized \in DOMAIN LANGUAGE_ALIASES THEN LANGUAGE_ALIASES[normalized]
  ELSE normalized

\* colorToAnsi(hex): the escape that sets the colour
colorToAnsi(hex) == <<ESC>>

\* hl.getLoadedLanguages(): the langs the engine was created with
getLoadedLanguages == SUPPORTED_LANGUAGES

\* hl.codeToTokens(code, {lang, theme}): one list of tokens per line of the
\* code, the lines being the pieces between its newlines. Under plaintext a
\* line is one token without colour; under a grammar a line that is not
\* empty is one coloured token and an empty line has no token.
codeToTokens(code, lang) ==
  LET lines == Split(code) IN
  [i \in 1..Len(lines) |->
     IF lang = "plaintext" THEN <<[content |-> lines[i], color |-> None]>>
     ELSE IF lines[i] = <<>> THEN <<>>
     ELSE <<[content |-> lines[i], color |-> Some(<<"#79c0ff">>)]>>]

\* the inner loop: a token with a colour is wrapped in the escape and the
\* reset, a token without colour is taken as it is
RECURSIVE RenderLine(_)
RenderLine(line) ==
  IF line = <<>> THEN <<>>
  ELSE LET token == Head(line) IN
       (IF token.color.some
        THEN colorToAnsi(token.color.value) \o token.content \o <<RESET>>
        ELSE token.content)
       \o RenderLine(Tail(line))

\* the outer loop: every line is followed by a newline
RECURSIVE RenderLines(_)
RenderLines(tokens) ==
  IF tokens = <<>> THEN <<>>
  ELSE RenderLine(Head(tokens)) \o <<NL>> \o RenderLines(Tail(tokens))

endsWithNL(s) == s # <<>> /\ s[Len(s)] = NL

\* the loops and the removal of the last newline when the code has none
Render(tokens, code) ==
  LET result == RenderLines(tokens) IN
  IF ~endsWithNL(code) /\ endsWithNL(result)
  THEN SubSeq(result, 1, Len(result) - 1)
  ELSE result

\* the Exit of an effect
Success(value) == [tag |-> "Success", value |-> value]
Failure_HighlightError == [tag |-> "Failure", value |-> <<"HighlightError">>]

\* the highlight call reaches getHighlighter, where initHighlighter runs
RunsInit(code) == code # <<>>

\* what goes wrong in a call that gets that far: nothing, the import of shiki
\* or getSingletonHighlighter ("init"), or codeToTokens throws ("tokens")
Faults == {"none", "init", "tokens"}

\* the generator of highlight, before catchAll
highlightGen(code, lang, fault) ==
  IF code = <<>> THEN Success(<<>>)
  ELSE
    LET normalized == normalizeLanguage(lang)
        langToUse == IF normalized \in getLoadedLanguages
                     THEN normalized ELSE "plaintext"
    IN IF fault = "init" THEN Failure_HighlightError
       ELSE IF fault = "tokens" THEN Failure_HighlightError
       ELSE Success(Render(codeToTokens(code, langToUse), code))

\* variant: the failure is passed on
catchAll_Propagate(exit, code) == exit

\* .pipe(Effect.catchAll((err) => Effect.succeed(code)))
catchAll(exit, code) == IF exit.tag = "Failure" THEN Success(code) ELSE exit

\* SyntaxHighlighter.create().highlight(code, lang)
highlightCode(code, lang, fault) ==
  catchAll(highlightGen(code, lang, fault), code)

\* ------------------------------------------------------------------------
\* Specification of the highlighter used by one process
\* ------------------------------------------------------------------------
CodeAlphabet == {"a", NL}

RECURSIVE Codes(_)
Codes(n) ==
  IF n = 0 THEN {<<>>}
  ELSE LET S == Codes(n - 1) IN S \cup {Append(t, c) : t \in S, c \in CodeAlphabet}

\* a supported language, an alias, both with capitals, the tag of the
\* warm-up, plaintext, the empty tag and a tag that is no language
LangTags ==
  {"javascript", "js", "JS", "Python", "text", "plaintext", "", "invalidlang12345"}

\* one run of highlight(code, lang): it executes initHighlighter unless the
\* code is empty, since every run of cachedHighlighter makes a new cache
highlightRun(code, lang, fault) ==
  /\ shCode' = code
  /\ shLang' = lang
  /\ shExit' = highlightCode(code, lang, fault)
  /\ shCause' = IF code = <<>> THEN "none" ELSE fault
  /\ shInitRuns' = IF RunsInit(code) THEN shInitRuns + 1 ELSE shInitRuns
  /\ shEngine' = (shEngine \/ (RunsInit(code) /\ fault # "init"))
  /\ shCount' = shCount + 1

\* highlighter.highlight(code, lang) is run to completion
ShHighlight ==
  /\ shCount < MaxCalls
  /\ \E code \in Codes(MaxCodeLen), lang \in LangTags, fault \in Faults :
       highlightRun(code, lang, fault)
  /\ UNCHANGED shWarmed
  /\ UNCHANGED <<sbVars, sseVars, deltaVars, chatVars, ciVars, mrVars, fmVars, plVars, rfVars, auVars, spVars, cbVars>>

\* warmupHighlighter() is run to completion
ShWarmup ==
  /\ shCount < MaxCalls
  /\ \E fault \in Faults : highlightRun(<<>>, "text", fault)
  /\ shWarmed' = TRUE
  /\ UNCHANGED <<sbVars, sseVars, deltaVars, chatVars, ciVars, mrVars, fmVars, plVars, rfVars, auVars, spVars, cbVars>>

ShInit ==
  /\ shInit
  /\ text = <<>>
  /\ sbInit
  /\ cbIdle
  /\ spIdle
  /\ auIdle
  /\ rfIdle
  /\ plIdle
  /\ fmIdle
  /\ mrIdle
  /\ ciIdle
  /\ sseStream = <<>>
  /\ sseInit
  /\ deltaIdle
  /\ chatIdle

ShNext == ShHighlight \/ ShWarmup

SpecHL == ShInit /\ [][ShNext]_vars

\* ------------------------------------------------------------------------
\* CopilotChatInstance: the conversation history
\* ------------------------------------------------------------------------
ChatMessage(role, content) == [role |-> role, content |-> content]

\* variant: the history is not sent
askMessages_NoHistory(history, userMessage, system) ==
  (IF system # <<>> THEN <<ChatMessage("system", system)>> ELSE <<>>)
  \o <<ChatMessage("user", userMessage)>>

\* the messages ask() builds: options.system when it is given and not
\* empty, the history, the user message
askMessages(history, userMessage, system) ==
  (IF system # <<>> THEN <<ChatMessage("system", system)>> ELSE <<>>)
  \o history
  \o <<ChatMessage("user", userMessage)>>

\* the two pushes of the callback of Effect.map
askPush(history, userMessage, fullResponse) ==
  history \o <<ChatMessage("user", userMessage),
               ChatMessage("assistant", fullResponse)>>

UserMessages == {<<"p">>, <<"q">>}
SystemMessages == {<<>>, <<"s">>}
TextDeltas == {<<"x">>, <<"y">>}

\* chat.ask(userMessage, {system}) is called and its effect is run
AskStart ==
  /\ ciPhase = "idle"
  /\ ciCount < MaxAsks
  /\ \E userMessage \in UserMessages, system \in SystemMessages :
       /\ ciUser' = userMessage
       /\ ciSystem' = system
       /\ ciMessages' = askMessages(ciHistory, userMessage, system)
  /\ ciPhase' = "streaming"
  /\ ciAcc' = <<>>
  /\ ciSentModel' = ciModel
  /\ UNCHANGED <<ciHistory, ciLog, ciCount, ciModel, ciSets>>
  /\ UNCHANGED <<sbVars, sseVars, deltaVars, chatVars, shVars, mrVars, fmVars, plVars, rfVars, auVars, spVars, cbVars>>

\* the stream delivers a text delta: runFold adds it to the accumulator
AskChunk ==
  /\ ciPhase = "streaming"
  /\ Len(ciAcc) < MaxDeltas
  /\ \E chunk \in TextDeltas : ciAcc' = ciAcc \o chunk
  /\ UNCHANGED <<ciHistory, ciPhase, ciUser, ciSystem, ciMessages, ciLog, ciCount>>
  /\ UNCHANGED <<ciModel, ciSentModel, ciSets>>
  /\ UNCHANGED <<sbVars, sseVars, deltaVars, chatVars, shVars, mrVars, fmVars, plVars, rfVars, auVars, spVars, cbVars>>

\* the stream ends: the callback of Effect.map runs with the full response
AskSucceed ==
  /\ ciPhase = "streaming"
  /\ ciHistory' = askPush(ciHistory, ciUser, ciAcc)
  /\ ciLog' = Append(ciLog, <<ciUser, ciAcc>>)
  /\ ciPhase' = "idle"
  /\ ciCount' = ciCount + 1
  /\ UNCHANGED <<ciUser, ciSystem, ciMessages, ciAcc, ciModel, ciSentModel, ciSets>>
  /\ UNCHANGED <<sbVars, sseVars, deltaVars, chatVars, shVars, mrVars, fmVars, plVars, rfVars, auVars, spVars, cbVars>>

\* the stream or onChunk fails: the effect fails, Effect.map runs nothing
AskFail ==
  /\ ciPhase = "streaming"
  /\ ciPhase' = "idle"
  /\ ciCount' = ciCount + 1
  /\ UNCHANGED <<ciHistory, ciUser, ciSystem, ciMessages, ciAcc, ciLog>>
  /\ UNCHANGED <<ciModel, ciSentModel, ciSets>>
  /\ UNCHANGED <<sbVars, sseVars, deltaVars, chatVars, shVars, mrVars, fmVars, plVars, rfVars, auVars, spVars, cbVars>>

\* variant: switching the model starts a new conversation
setModel_Reset(instance, model) == [history |-> <<>>, model |-> model]

\* setModel(model) on an instance with the given history and model
setModel(instance, model) == [instance EXCEPT !.model = model]

ModelIds == {"gpt", "claude"}

\* chat.setModel(selected), as handleModelSelection calls it
SetModel ==
  /\ ciSets < MaxSets
  /\ \E model \in ModelIds :
       LET after == setModel([history |-> ciHistory, model |-> ciModel], model) IN
       /\ ciHistory' = after.history
       /\ ciModel' = after.model
  /\ ciSets' = ciSets + 1
  /\ UNCHANGED <<ciPhase, ciUser, ciSystem, ciMessages, ciAcc, ciLog, ciCount, ciSentModel>>
  /\ UNCHANGED <<sbVars, sseVars, deltaVars, chatVars, shVars, mrVars, fmVars, plVars, rfVars, auVars, spVars, cbVars>>

AskInit ==
  /\ ciInit
  /\ text = <<>>
  /\ sbInit
  /\ cbIdle
  /\ spIdle
  /\ auIdle
  /\ rfIdle
  /\ plIdle
  /\ fmIdle
  /\ mrIdle
  /\ sseStream = <<>>
  /\ sseInit
  /\ deltaIdle
  /\ chatIdle
  /\ shInit

AskNext == AskStart \/ AskChunk \/ AskSucceed \/ AskFail \/ SetModel

SpecAsk == AskInit /\ [][AskNext]_vars

\* ------------------------------------------------------------------------
\* ModelResolver: the cache of the model list
\* ------------------------------------------------------------------------
\* 5 * 60 * 1000 milliseconds, one tick of the clock being 2.5 minutes
CACHE_TTL == 2

\* the lists of model ids the /models endpoint can answer with
ModelLists == { <<"gpt-4o">>, <<"gpt-4o", "claude-3.5">> }

NoCache == [some |-> FALSE, models |-> <<>>, expiresAt |-> 0]

\* this.cache = { models, expiresAt: Date.now() + 5 * 60 * 1000 }
CacheOf(models, now) ==
  [some |-> TRUE, models |-> models, expiresAt |-> now + CACHE_TTL]

\* the condition under which getModels() answers from the cache
CacheValid(cache, now) == cache.some /\ now < cache.expiresAt

\* ModelResolver.make: the list is fetched and cached
Make ==
  /\ ~mrMade
  /\ \E models \in ModelLists :
       /\ mrFetches' = Append(mrFetches, models)
       /\ mrCache' = CacheOf(models, mrNow)
  /\ mrMade' = TRUE
  /\ UNCHANGED <<mrNow, mrReturned>>
  /\ UNCHANGED <<sbVars, sseVars, deltaVars, chatVars, shVars, ciVars, fmVars, plVars, rfVars, auVars, spVars, cbVars>>

\* listModels() or resolve(spec) is run: getModels() answers from the cache
\* while it is valid, and fetches and caches the list again otherwise
Lookup ==
  /\ mrMade
  /\ Len(mrReturned) < MaxLookups
  /\ IF CacheValid(mrCache, mrNow)
     THEN /\ mrReturned' = Append(mrReturned, mrCache.models)
          /\ UNCHANGED <<mrCache, mrFetches>>
     ELSE \E models \in ModelLists :
            /\ mrFetches' = Append(mrFetches, models)
            /\ mrCache' = CacheOf(models, mrNow)
            /\ mrReturned' = Append(mrReturned, models)
  /\ UNCHANGED <<mrMade, mrNow>>
  /\ UNCHANGED <<sbVars, sseVars, deltaVars, chatVars, shVars, ciVars, fmVars, plVars, rfVars, auVars, spVars, cbVars>>

\* time passes in the session
Tick ==
  /\ mrNow < MaxTime
  /\ mrNow' = mrNow + 1
  /\ UNCHANGED <<mrMade, mrCache, mrFetches, mrReturned>>
  /\ UNCHANGED <<sbVars, sseVars, deltaVars, chatVars, shVars, ciVars, fmVars, plVars, rfVars, auVars, spVars, cbVars>>

MrInit ==
  /\ mrInit
  /\ text = <<>>
  /\ sbInit
  /\ cbIdle
  /\ spIdle
  /\ auIdle
  /\ rfIdle
  /\ plIdle
  /\ fmIdle
  /\ ciIdle
  /\ sseStream = <<>>
  /\ sseInit
  /\ deltaIdle
  /\ chatIdle
  /\ shInit

MrNext == Make \/ Lookup \/ Tick

SpecMR == MrInit /\ [][MrNext]_vars

\* ------------------------------------------------------------------------
\* ModelResolver.filterModels
\* ------------------------------------------------------------------------
\* String.toLowerCase over the letters of this model
LowerChar(c) == IF c = "A" THEN "a" ELSE IF c = "B" THEN "b" ELSE c
toLowerCaseChars(s) == [i \in 1..Len(s) |-> LowerChar(s[i])]

\* text.indexOf(char, offset): the 0-based place of the first char at or
\* after offset, -1 when there is none
indexOf(str, char, offset) ==
  LET hits == {i \in offset..(Len(str) - 1) : str[i + 1] = char} IN
  IF hits = {} THEN -1 ELSE MinOf(hits)

\* haystack.includes(query)
includes(haystack, query) ==
  \E i \in 0..(Len(haystack) - Len(query)) :
     SubSeq(haystack, i + 1, i + Len(query)) = query

\* variant: every character is looked for from the start of the text
RECURSIVE subsequenceMatch_FromStart(_, _, _)
subsequenceMatch_FromStart(str, term, offset) ==
  IF term = <<>> THEN TRUE
  ELSE LET idx == indexOf(str, Head(term), 0) IN
       IF idx = -1 THEN FALSE
       ELSE subsequenceMatch_FromStart(str, Tail(term), idx + 1)

\* subsequenceMatch(text, term), the loop from the given offset on
RECURSIVE subsequenceMatch(_, _, _)
subsequenceMatch(str, term, offset) ==
  IF term = <<>> THEN TRUE
  ELSE LET idx == indexOf(str, Head(term), offset) IN
       IF idx = -1 THEN FALSE
       ELSE subsequenceMatch(str, Tail(term), idx + 1)

\* matchesQuery(model, query)
matchesQuery(model, query) ==
  LET haystack == toLowerCaseChars(model.id \o <<" ">> \o model.name) IN
  IF includes(haystack, query) THEN TRUE
  ELSE subsequenceMatch(haystack, query, 0)

\* models.filter(...)
RECURSIVE filter(_, _)
filter(models, query) ==
  IF models = <<>> THEN <<>>
  ELSE (IF matchesQuery(Head(models), query) THEN <<Head(models)>> ELSE <<>>)
       \o filter(Tail(models), query)

\* ModelResolver.filterModels(models, query)
filterModels(models, query) ==
  LET normalized == toLowerCaseChars(Trim(query)) IN
  IF normalized = <<>> THEN models ELSE filter(models, normalized)

QueryAlphabet == {"a", "b", "A", " "}

RECURSIVE Queries(_)
Queries(n) ==
  IF n = 0 THEN {<<>>}
  ELSE LET S == Queries(n - 1) IN S \cup {Append(t, c) : t \in S, c \in QueryAlphabet}

CopilotModels ==
  { [id |-> <<"a", "b">>, name |-> <<"A">>],
    [id |-> <<"b">>, name |-> <<"B", "a">>],
    [id |-> <<"b", "b">>, name |-> <<>>] }

RECURSIVE ModelSeqs(_)
ModelSeqs(n) ==
  IF n = 0 THEN {<<>>}
  ELSE LET S == ModelSeqs(n - 1) IN S \cup {Append(t, m) : t \in S, m \in CopilotModels}

\* ModelResolver.filterModels(fmModels, fmQuery) is called
FilterModels ==
  /\ ~fmDone
  /\ fmResult' = filterModels(fmModels, fmQuery)
  /\ fmDone' = TRUE
  /\ UNCHANGED <<fmModels, fmQuery>>
  /\ UNCHANGED <<sbVars, sseVars, deltaVars, chatVars, shVars, ciVars, mrVars, plVars, rfVars, auVars, spVars, cbVars>>

FmInit ==
  /\ fmModels \in ModelSeqs(MaxModels)
  /\ fmQuery \in Queries(MaxQueryLen)
  /\ fmInit
  /\ text = <<>>
  /\ sbInit
  /\ cbIdle
  /\ spIdle
  /\ auIdle
  /\ rfIdle
  /\ plIdle
  /\ ciIdle
  /\ mrIdle
  /\ sseStream = <<>>
  /\ sseInit
  /\ deltaIdle
  /\ chatIdle
  /\ shInit

FmNext == FilterModels

SpecFM == FmInit /\ [][FmNext]_vars

\* ------------------------------------------------------------------------
\* The chat shell: one streamed response per submitted line
\* ------------------------------------------------------------------------
\* variant: the stream hands on the next delta while onChunk is still running
CanPull_Eager(open) == TRUE

\* Stream.tap runs the onChunk effect of an element to completion before the
\* element goes on to runFold, which only then pulls the next one
CanPull(open) == open = {}

\* handleLine(line) for a line sent to the model: isSubmitting is set, a new
\* StreamBuffer is created and chat.ask(...) starts streaming
HandleLine ==
  /\ ~plSubmitting
  /\ plResponses < MaxResponses
  /\ plSubmitting' = TRUE
  /\ plPhase' = "streaming"
  /\ plDeltas' = 0
  /\ plOpen' = {}
  /\ plEvents' = <<>>
  /\ plResponses' = plResponses + 1
  /\ UNCHANGED <<sbVars, sseVars, deltaVars, chatVars, shVars, ciVars, mrVars, fmVars, rfVars, auVars, spVars, cbVars>>

\* the stream delivers a delta: onChunk starts streamBuffer.write(chunk)
PipeDelta ==
  /\ plPhase = "streaming"
  /\ CanPull(plOpen)
  /\ plDeltas < MaxPipeDeltas
  /\ plDeltas' = plDeltas + 1
  /\ plOpen' = plOpen \cup {plDeltas + 1}
  /\ plEvents' = Append(plEvents, [op |-> "write", n |-> plDeltas + 1])
  /\ UNCHANGED <<plPhase, plSubmitting, plResponses>>
  /\ UNCHANGED <<sbVars, sseVars, deltaVars, chatVars, shVars, ciVars, mrVars, fmVars, rfVars, auVars, spVars, cbVars>>

\* streamBuffer.write(chunk) completes and the delta goes on to runFold
PipeWriteDone ==
  /\ plPhase = "streaming"
  /\ \E n \in plOpen :
       /\ plOpen' = plOpen \ {n}
       /\ plEvents' = Append(plEvents, [op |-> "written", n |-> n])
  /\ UNCHANGED <<plPhase, plSubmitting, plDeltas, plResponses>>
  /\ UNCHANGED <<sbVars, sseVars, deltaVars, chatVars, shVars, ciVars, mrVars, fmVars, rfVars, auVars, spVars, cbVars>>

\* the stream ends, runFold and chat.ask succeed
PipeStreamEnd ==
  /\ plPhase = "streaming"
  /\ plOpen = {}
  /\ plPhase' = "asked"
  /\ UNCHANGED <<plSubmitting, plDeltas, plOpen, plEvents, plResponses>>
  /\ UNCHANGED <<sbVars, sseVars, deltaVars, chatVars, shVars, ciVars, mrVars, fmVars, rfVars, auVars, spVars, cbVars>>

\* the stream fails: chat.ask fails, the generator stops at yield* chat.ask
\* and Effect.runPromise rejects
PipeStreamFail ==
  /\ plPhase = "streaming"
  /\ plOpen = {}
  /\ plPhase' = "failed"
  /\ UNCHANGED <<plSubmitting, plDeltas, plOpen, plEvents, plResponses>>
  /\ UNCHANGED <<sbVars, sseVars, deltaVars, chatVars, shVars, ciVars, mrVars, fmVars, rfVars, auVars, spVars, cbVars>>

\* yield* streamBuffer.flush() after chat.ask has succeeded
PipeFlush ==
  /\ plPhase = "asked"
  /\ plPhase' = "flushed"
  /\ plEvents' = Append(plEvents, [op |-> "flush", n |-> 0])
  /\ UNCHANGED <<plSubmitting, plDeltas, plOpen, plResponses>>
  /\ UNCHANGED <<sbVars, sseVars, deltaVars, chatVars, shVars, ciVars, mrVars, fmVars, rfVars, auVars, spVars, cbVars>>

\* finally { isSubmitting = false }
PipeReturn ==
  /\ plSubmitting
  /\ plPhase \in {"flushed", "failed"}
  /\ plSubmitting' = FALSE
  /\ UNCHANGED <<plPhase, plDeltas, plOpen, plEvents, plResponses>>
  /\ UNCHANGED <<sbVars, sseVars, deltaVars, chatVars, shVars, ciVars, mrVars, fmVars, rfVars, auVars, spVars, cbVars>>

PipeInit ==
  /\ plInit
  /\ fmIdle
  /\ text = <<>>
  /\ sbInit
  /\ cbIdle
  /\ spIdle
  /\ auIdle
  /\ rfIdle
  /\ ciIdle
  /\ mrIdle
  /\ sseStream = <<>>
  /\ sseInit
  /\ deltaIdle
  /\ chatIdle
  /\ shInit

PipeNext ==
  \/ HandleLine
  \/ PipeDelta
  \/ PipeWriteDone
  \/ PipeStreamEnd
  \/ PipeStreamFail
  \/ PipeFlush
  \/ PipeReturn

SpecPipe == PipeInit /\ [][PipeNext]_vars

\* ------------------------------------------------------------------------
\* A StreamBuffer that is used on after flush()
\* ------------------------------------------------------------------------
ReuseTexts == Strings(MaxReuseLen) \cup DocBodies(MaxReuseLines) \cup
              {t \o <<"b">> : t \in DocBodies(MaxReuseLines)}

\* buffer.write(chunk) with the next piece of the text, before or after a flush
ReuseWrite ==
  /\ \E n \in 1..(Len(text) - pos) :
       LET chunk == SubSeq(text, pos + 1, pos + n)
           run == write(ref, chunk)
           shadow == write(rfShadow, chunk)
       IN
       /\ pos' = pos + n
       /\ ref' = run.buf
       /\ output' = output \o run.emitted
       /\ hlCalls' = hlCalls \o run.calls
       /\ lastSteps' = run.steps
       /\ stuck' = run.stuck
       /\ rfSince' = rfSince \o run.emitted
       /\ rfShadow' = shadow.buf
       /\ rfShadowOut' = rfShadowOut \o shadow.emitted
  /\ rfLast' = "write"
  /\ UNCHANGED <<text, flushed, rfCount, rfFlushOut>>
  /\ UNCHANGED <<sseVars, deltaVars, chatVars, shVars, ciVars, mrVars, fmVars, plVars, auVars, spVars, cbVars>>

\* buffer.flush(), at any point of the text; from then on the shadow is a
\* buffer as StreamBuffer.create makes it
ReuseFlush ==
  /\ rfCount < MaxFlushes
  /\ LET f == flush(ref) IN
       /\ ref' = f.buf
       /\ output' = output \o f.emitted
       /\ hlCalls' = hlCalls \o f.calls
       /\ rfFlushOut' = [emitted |-> f.emitted, calls |-> f.calls]
  /\ flushed' = TRUE
  /\ rfCount' = rfCount + 1
  /\ rfLast' = IF rfLast \in {"flush", "reflush"} THEN "reflush" ELSE "flush"
  /\ rfSince' = <<>>
  /\ rfShadow' = [state |-> "NORMAL", lineBuffer |-> <<>>, language |-> None, pending |-> <<>>]
  /\ rfShadowOut' = <<>>
  /\ UNCHANGED <<text, pos, lastSteps, stuck>>
  /\ UNCHANGED <<sseVars, deltaVars, chatVars, shVars, ciVars, mrVars, fmVars, plVars, auVars, spVars, cbVars>>

ReuseInit ==
  /\ text \in ReuseTexts
  /\ sbInit
  /\ cbIdle
  /\ spIdle
  /\ auIdle
  /\ rfInit
  /\ plIdle
  /\ fmIdle
  /\ mrIdle
  /\ ciIdle
  /\ sseStream = <<>>
  /\ sseInit
  /\ deltaIdle
  /\ chatIdle
  /\ shInit

ReuseNext == ReuseWrite \/ ReuseFlush

SpecReuse == ReuseInit /\ [][ReuseNext]_vars

\* ------------------------------------------------------------------------
\* AuthService.getBearerToken over the TokenStore
\* ------------------------------------------------------------------------
\* getBearerToken() calls of one run
MaxAuthCalls == 3
\* the clock stops here
MaxClock == 4
\* longest life, in ticks, of a bearer token the endpoint hands out
MaxLife == 2

\* what the device flow hands back, what an existing Copilot config holds
DeviceToken == <<"d">>
ConfigToken == <<"c">>
\* the bearer tokens the endpoint hands out
BearerTokens == {<<"x">>, <<"y">>}

\* new TokenCacheSchema({}): every field undefined
emptyCache == [exists |-> TRUE, oauth_token |-> <<>>, bearer_token |-> <<>>, expires_at |-> 0]

\* save(updater): the updater applied to what load() finds, or to the empty
\* cache, written back
save(file, field, value) ==
  LET prev == IF file.exists THEN file ELSE emptyCache
  IN  [prev EXCEPT ![field] = value, !.exists = TRUE]

saveOAuthToken(file, token) == save(file, "oauth_token", token)

saveBearerToken(file, token, expiresAt) ==
  save(save(file, "bearer_token", token), "expires_at", expiresAt)

\* the freshness test with the expiry instant still counted as valid
isFresh_Inclusive(cached, now) ==
  /\ cached.bearer_token /= <<>>
  /\ cached.expires_at /= 0
  /\ cached.expires_at >= now

\* cached?.bearer_token && cached?.expires_at && cached.expires_at > now
isFresh(cached, now) ==
  /\ cached.bearer_token /= <<>>
  /\ cached.expires_at /= 0
  /\ cached.expires_at > now

\* findExistingToken: the oauth_token of hosts.json or apps.json, else null
findExistingToken == auConfig

\* the OAuth token getBearerToken goes on with before any device flow
knownOAuth(cached) ==
  IF cached.oauth_token /= <<>> THEN cached.oauth_token ELSE findExistingToken

\* getBearerToken(): one call, with every outcome of the device flow and of
\* the bearer-token endpoint
getBearerToken ==
  /\ auCalls < MaxAuthCalls
  /\ auCalls' = auCalls + 1
  /\ auBefore' = auCache
  /\ auAt' = auNow
  /\ IF isFresh(auCache, auNow)
     THEN /\ auResult' = [ok |-> TRUE, token |-> auCache.bearer_token]
          /\ auRequests' = <<>>
          /\ UNCHANGED <<auCache, auFetched, auLog>>
     ELSE \E deviceOk \in BOOLEAN, fetchOk \in BOOLEAN,
             token \in BearerTokens, life \in 0..MaxLife :
            LET known == knownOAuth(auCache)
                needsFlow == known = <<>>
                oauthToken == IF needsFlow THEN DeviceToken ELSE known
                afterFlow == IF needsFlow /\ deviceOk
                             THEN saveOAuthToken(auCache, oauthToken)
                             ELSE auCache
                flowReq == IF needsFlow THEN <<"device">> ELSE <<>>
            IN  IF needsFlow /\ ~deviceOk
                THEN /\ auRequests' = flowReq
                     /\ auLog' = auLog \o flowReq
                     /\ auResult' = [ok |-> FALSE, token |-> <<>>]
                     /\ UNCHANGED <<auCache, auFetched>>
                ELSE IF ~fetchOk
                THEN /\ auRequests' = flowReq \o <<"bearer">>
                     /\ auLog' = auLog \o flowReq \o <<"bearer">>
                     /\ auResult' = [ok |-> FALSE, token |-> <<>>]
                     /\ auCache' = afterFlow
                     /\ UNCHANGED auFetched
                ELSE /\ auRequests' = flowReq \o <<"bearer">>
                     /\ auLog' = auLog \o flowReq \o <<"bearer">>
                     /\ auFetched' = [token |-> token, expires_at |-> auNow + life]
                     /\ auCache' = saveBearerToken(afterFlow, token, auNow + life)
                     /\ auResult' = [ok |-> TRUE, token |-> token]
  /\ UNCHANGED <<auConfig, auNow>>
  /\ UNCHANGED <<sbVars, sseVars, deltaVars, chatVars, shVars, ciVars, mrVars, fmVars, plVars, rfVars, spVars, cbVars>>

\* time passes between two calls
AuthTick ==
  /\ auNow < MaxClock
  /\ auNow' = auNow + 1
  /\ UNCHANGED <<auCache, auConfig, auBefore, auAt, auRequests, auFetched,
                 auResult, auLog, auCalls>>
  /\ UNCHANGED <<sbVars, sseVars, deltaVars, chatVars, shVars, ciVars, mrVars, fmVars, plVars, rfVars, spVars, cbVars>>

AuthInit ==
  /\ auConfig \in {<<>>, ConfigToken}
  /\ auInit
  /\ text = <<>>
  /\ sbInit
  /\ cbIdle
  /\ spIdle
  /\ rfIdle
  /\ plIdle
  /\ fmIdle
  /\ mrIdle
  /\ ciIdle
  /\ sseStream = <<>>
  /\ sseInit
  /\ deltaIdle
  /\ chatIdle
  /\ shInit

AuthNext == getBearerToken \/ AuthTick

SpecAuth == AuthInit /\ [][AuthNext]_vars

\* ------------------------------------------------------------------------
\* The spinner of the raw-mode chat shell
\* ------------------------------------------------------------------------
\* chat messages submitted in one session
MaxRequests == 3
\* chunks of one response
MaxChunks == 2
\* frames.length
FrameCount == 10

\* startSpinner(): if (spinnerTimer) return; spinnerTimer = setInterval(...)
startSpinner(sp, id) ==
  IF sp.timer # 0 THEN sp ELSE [sp EXCEPT !.timer = id]

\* stopSpinner(): if (spinnerStopped) return; spinnerStopped = true;
\* if (spinnerTimer) { clearInterval(spinnerTimer); spinnerTimer = null }
stopSpinner(sp) ==
  IF sp.stopped THEN sp ELSE [timer |-> 0, stopped |-> TRUE]

\* the two variables of the closure as one value
spinnerState == [timer |-> spinnerTimer, stopped |-> spinnerStopped]

\* handleLine(line) for a chat message: yield* spinner acquires the spinner
SpinSubmit ==
  /\ spPhase \in {"idle", "done", "failed"}
  /\ spRequests < MaxRequests
  /\ spRequests' = spRequests + 1
  /\ LET sp == startSpinner(spinnerState, spRequests + 1) IN
       /\ spinnerTimer' = sp.timer
       /\ spinnerStopped' = sp.stopped
  /\ spPhase' = "waiting"
  /\ spChunks' = 0
  /\ UNCHANGED frameIdx
  /\ UNCHANGED <<sbVars, sseVars, deltaVars, chatVars, shVars, ciVars, mrVars, fmVars, plVars, rfVars, auVars, cbVars>>

\* onChunk(chunk): stopSpinner(), then streamBuffer.write(chunk)
SpinChunk ==
  /\ spPhase \in {"waiting", "streaming"}
  /\ spChunks < MaxChunks
  /\ LET sp == stopSpinner(spinnerState) IN
       /\ spinnerTimer' = sp.timer
       /\ spinnerStopped' = sp.stopped
  /\ spPhase' = "streaming"
  /\ spChunks' = spChunks + 1
  /\ UNCHANGED <<frameIdx, spRequests>>
  /\ UNCHANGED <<sbVars, sseVars, deltaVars, chatVars, shVars, ciVars, mrVars, fmVars, plVars, rfVars, auVars, cbVars>>

\* the scoped effect ends, with the response or with a failure: the scope
\* closes and runs the release of the spinner, stopSpinner
SpinEnd ==
  /\ spPhase \in {"waiting", "streaming"}
  /\ LET sp == stopSpinner(spinnerState) IN
       /\ spinnerTimer' = sp.timer
       /\ spinnerStopped' = sp.stopped
  /\ spPhase' \in {"done", "failed"}
  /\ UNCHANGED <<frameIdx, spRequests, spChunks>>
  /\ UNCHANGED <<sbVars, sseVars, deltaVars, chatVars, shVars, ciVars, mrVars, fmVars, plVars, rfVars, auVars, cbVars>>

\* the timer fires: a frame is written to stderr
SpinFrame ==
  /\ spinnerTimer # 0
  /\ frameIdx' = (frameIdx + 1) % FrameCount
  /\ UNCHANGED <<spinnerTimer, spinnerStopped, spPhase, spRequests, spChunks>>
  /\ UNCHANGED <<sbVars, sseVars, deltaVars, chatVars, shVars, ciVars, mrVars, fmVars, plVars, rfVars, auVars, cbVars>>

SpinInit ==
  /\ spInit
  /\ auIdle
  /\ text = <<>>
  /\ sbInit
  /\ cbIdle
  /\ rfIdle
  /\ plIdle
  /\ fmIdle
  /\ mrIdle
  /\ ciIdle
  /\ sseStream = <<>>
  /\ sseInit
  /\ deltaIdle
  /\ chatIdle
  /\ shInit

SpinNext == SpinSubmit \/ SpinChunk \/ SpinEnd \/ SpinFrame

SpecSpin == SpinInit /\ [][SpinNext]_vars

\* ------------------------------------------------------------------------
\* StreamBuffer (class-based, src/utils/stream-buffer.ts)
\* ------------------------------------------------------------------------
\* longest free text, and most lines of a document, written to it
MaxClassLen == 4
MaxClassLines == 3

\* this.language || "text"; null and "" are both written <<>>
TEXT == <<"t", "e", "x", "t">>
LangOrText(language) == IF language # <<>> THEN language ELSE TEXT

\* length of the greedy [ \t]* run of s at 0-based offset f
RECURSIVE BlankRun(_, _)
BlankRun(s, f) ==
  IF f + 1 <= Len(s) /\ s[f + 1] \in BlankChars THEN 1 + BlankRun(s, f + 1) ELSE 0

\* /^```[ \t]*(\n|$)/ : the length of the match, -1 when none
StartCloseFenceLength(p) ==
  IF ~TicksAt(p, 0) THEN -1
  ELSE LET e == 3 + BlankRun(p, 3) IN
       IF e = Len(p) THEN e
       ELSE IF p[e + 1] = NL THEN e + 1
       ELSE -1

\* /^`{1,2}$|^```[ \t]*$/
PartialStartMatches(p) ==
  \/ p = <<TICK>>
  \/ p = <<TICK, TICK>>
  \/ TicksAt(p, 0) /\ OnlyBlanksFrom(p, 3)

\* /\n```[ \t]*(\n|$)/ : the 0-based indexes of the newline of a match
CloseFenceMatches(p) ==
  {i \in 0..(Len(p) - 1) :
     /\ p[i + 1] = NL
     /\ StartCloseFenceLength(SubstringFrom(p, i + 1)) # -1}

\* /\n`{1,3}[ \t]*$/ : the 0-based indexes of the newline of a match
PartialCloseMatches(p) ==
  {i \in 0..(Len(p) - 1) :
     /\ p[i + 1] = NL
     /\ \E k \in 1..3 :
          /\ i + 1 + k <= Len(p)
          /\ \A j \in 1..k : p[i + 1 + j] = TICK
          /\ OnlyBlanksFrom(p, i + 1 + k)}

\* the call highlightCode(code, lang) as the buffer makes it
ClassCall(code, language) == [code |-> code, lang |-> LangOrText(language)]

classProcessNormalState(this) ==
  LET p == this.pendingChunk IN
  IF FenceMatches(p) # {} THEN
    LET fenceIndex == MinOf(FenceMatches(p))
        lang == Substring(p, fenceIndex + 3, fenceIndex + 3 + WordRun(p, fenceIndex + 3))
        fenceLineEnd == fenceIndex + 3 + Len(lang) + 1
    IN StepResult(TRUE,
         [state |-> "CODE_BLOCK", buffer |-> <<>>, language |-> lang,
          pendingChunk |-> SubstringFrom(p, fenceLineEnd)],
         Substring(p, 0, fenceIndex), <<>>)
  ELSE IF PartialFenceMatches(p) # {} THEN
    LET fenceIndex == MinOf(PartialFenceMatches(p))
    IN StepResult(FALSE,
         [this EXCEPT !.state = "CODE_FENCE_OPENING",
                      !.pendingChunk = SubstringFrom(p, fenceIndex)],
         Substring(p, 0, fenceIndex), <<>>)
  ELSE IF TrailingFenceIndex(p) # -1 THEN
    LET safeEnd == TrailingFenceIndex(p)
    IN StepResult(FALSE,
         [this EXCEPT !.pendingChunk = SubstringFrom(p, safeEnd)],
         Substring(p, 0, safeEnd), <<>>)
  ELSE StepResult(FALSE, [this EXCEPT !.pendingChunk = <<>>], p, <<>>)

classProcessCodeFenceOpeningState(this) ==
  LET p == this.pendingChunk
      newlineIndex == IndexOfNL(p)
  IN
  IF newlineIndex = -1 THEN StepResult(FALSE, this, <<>>, <<>>)
  ELSE
    LET fenceLine == Substring(p, 0, newlineIndex)
        language == IF TicksAt(fenceLine, 0)
                    THEN Substring(fenceLine, 3, 3 + WordRun(fenceLine, 3))
                    ELSE this.language
    IN StepResult(TRUE,
         [state |-> "CODE_BLOCK", buffer |-> <<>>, language |-> language,
          pendingChunk |-> SubstringFrom(p, newlineIndex + 1)],
         <<>>, <<>>)

classProcessCodeBlockState(this) ==
  LET p == this.pendingChunk
      bufferEndsWithNewline == endsWithNL(this.buffer)
  IN
  IF bufferEndsWithNewline /\ StartCloseFenceLength(p) # -1 THEN
    LET code == SubSeq(this.buffer, 1, Len(this.buffer) - 1)
    IN StepResult(TRUE,
         [state |-> "NORMAL", buffer |-> <<>>, language |-> <<>>,
          pendingChunk |-> SubstringFrom(p, StartCloseFenceLength(p))],
         Highlight(code, LangOrText(this.language)),
         <<ClassCall(code, this.language)>>)
  ELSE IF bufferEndsWithNewline /\ PartialStartMatches(p) THEN
    StepResult(FALSE, this, <<>>, <<>>)
  ELSE IF CloseFenceMatches(p) # {} THEN
    LET index == MinOf(CloseFenceMatches(p))
        closeFenceIndex == index + 1
        code == this.buffer \o Substring(p, 0, index)
        afterCloseFence == SubstringFrom(p, closeFenceIndex)
        newlineIndex == IndexOfNL(afterCloseFence)
    IN StepResult(TRUE,
         [state |-> "NORMAL", buffer |-> <<>>, language |-> <<>>,
          pendingChunk |-> IF newlineIndex = -1 THEN <<>>
                           ELSE SubstringFrom(afterCloseFence, newlineIndex + 1)],
         Highlight(code, LangOrText(this.language)),
         <<ClassCall(code, this.language)>>)
  ELSE IF PartialCloseMatches(p) # {} THEN
    LET safeEnd == MinOf(PartialCloseMatches(p))
    IN StepResult(FALSE,
         [this EXCEPT !.buffer = this.buffer \o Substring(p, 0, safeEnd + 1),
                      !.pendingChunk = SubstringFrom(p, safeEnd + 1)],
         <<>>, <<>>)
  ELSE StepResult(FALSE,
         [this EXCEPT !.buffer = this.buffer \o p, !.pendingChunk = <<>>],
         <<>>, <<>>)

classProcessChunk(this) ==
  IF this.state = "NORMAL" THEN classProcessNormalState(this)
  ELSE IF this.state = "CODE_FENCE_OPENING" THEN classProcessCodeFenceOpeningState(this)
  ELSE classProcessCodeBlockState(this)

\* while (this.pendingChunk.length > 0) { if (!processChunk()) break }
RECURSIVE classWriteLoop(_, _)
classWriteLoop(run, fuel) ==
  IF Len(run.buf.pendingChunk) = 0 \/ fuel = 0 THEN run
  ELSE
    LET result == classProcessChunk(run.buf)
        after == [buf |-> result.next,
                  emitted |-> run.emitted \o result.emitted,
                  calls |-> run.calls \o result.calls]
    IN IF result.processed THEN classWriteLoop(after, fuel - 1) ELSE after

\* write(chunk)
classWrite(this, chunk) ==
  classWriteLoop([buf |-> [this EXCEPT !.pendingChunk = this.pendingChunk \o chunk],
                  emitted |-> <<>>, calls |-> <<>>],
                 MaxSteps)

\* flush(): the unclosed code block, then the pending chunk, as they are
classFlush(this) ==
  [buf |-> classInitial,
   emitted |-> (IF this.state = "CODE_BLOCK" /\ Len(this.buffer) > 0
                THEN this.buffer ELSE <<>>)
               \o (IF Len(this.pendingChunk) > 0 THEN this.pendingChunk ELSE <<>>),
   calls |-> <<>>]

ClassTexts == Strings(MaxClassLen) \cup DocBodies(MaxClassLines) \cup
              {t \o <<"b">> : t \in DocBodies(MaxClassLines)}

\* buffer.write(chunk) with the next piece of the text
ClassWrite ==
  /\ ~cbFlushed
  /\ \E n \in 1..(Len(cbText) - cbPos) :
       LET run == classWrite(cbBuf, SubSeq(cbText, cbPos + 1, cbPos + n)) IN
       /\ cbPos' = cbPos + n
       /\ cbBuf' = run.buf
       /\ cbOut' = cbOut \o run.emitted
       /\ cbCalls' = cbCalls \o run.calls
  /\ UNCHANGED <<cbText, cbBefore, cbFlushOut, cbFlushed>>
  /\ UNCHANGED <<sbVars, sseVars, deltaVars, chatVars, shVars, ciVars, mrVars, fmVars, plVars, rfVars, auVars, spVars>>

\* buffer.flush(), at any point of the text
ClassFlush ==
  /\ ~cbFlushed
  /\ LET f == classFlush(cbBuf) IN
       /\ cbBuf' = f.buf
       /\ cbOut' = cbOut \o f.emitted
       /\ cbCalls' = cbCalls \o f.calls
       /\ cbFlushOut' = f.emitted
  /\ cbBefore' = cbBuf
  /\ cbFlushed' = TRUE
  /\ UNCHANGED <<cbText, cbPos>>
  /\ UNCHANGED <<sbVars, sseVars, deltaVars, chatVars, shVars, ciVars, mrVars, fmVars, plVars, rfVars, auVars, spVars>>

ClassInit ==
  /\ cbText \in ClassTexts
  /\ cbInit
  /\ spIdle
  /\ auIdle
  /\ text = <<>>
  /\ sbInit
  /\ rfIdle
  /\ plIdle
  /\ fmIdle
  /\ mrIdle
  /\ ciIdle
  /\ sseStream = <<>>
  /\ sseInit
  /\ deltaIdle
  /\ chatIdle
  /\ shInit

ClassNext == ClassWrite \/ ClassFlush

SpecClass == ClassInit /\ [][ClassNext]_vars

\* ------------------------------------------------------------------------
\* What the response text means, line by line (independent of the buffer)
\* ------------------------------------------------------------------------
\* three consecutive backticks somewhere in s
HasTriple(s) == \E f \in 0..Len(s) : TicksAt(s, f)
\* three backticks at offset 0 of s or right after a newline of s
HasLineStartTriple(s) == \E f \in 0..Len(s) : AtLineStart(s, f) /\ TicksAt(s, f)
\* a line (without its newline) that is an opening marker: three backticks
\* and an optional language word
OpeningMarker(line) == TicksAt(line, 0) /\ 3 + WordRun(line, 3) = Len(line)
\* a line (without its newline) that is a closing marker: three backticks
\* and optional blanks
ClosingMarker(line) ==
  TicksAt(line, 0) /\ \A i \in 4..Len(line) : line[i] \in BlankChars
MarkerLang(line) == SubSeq(line, 4, Len(line))
LangOrPlain(lang) == IF lang = <<>> THEN PLAINTEXT ELSE lang

\* Reading of a text as Markdown with fenced blocks. acc holds
\*   kept     the text with the fence-marker lines deleted
\*   rendered the text with the marker lines deleted and every code line
\*            highlighted
\*   calls    the code lines with the language of their block
\*   inBlock, lang   whether the text ends inside a block, and its language
\*   clean    three backticks occur only at the start of marker lines
\*   blocks   the number of opening markers
RECURSIVE Reading(_, _)
Reading(t, acc) ==
  LET i == IndexOfNL(t) IN
  IF i = -1 THEN
    [acc EXCEPT
       !.kept = @ \o t,
       !.rendered = @ \o (IF acc.inBlock THEN Highlight(t, LangOrPlain(acc.lang)) ELSE t),
       !.calls = @ \o (IF acc.inBlock /\ t # <<>>
                       THEN <<[code |-> t, lang |-> LangOrPlain(acc.lang)]>> ELSE <<>>),
       !.clean = @ /\ ~HasTriple(t)]
  ELSE
    LET line == SubSeq(t, 1, i)
        rest == SubSeq(t, i + 2, Len(t))
    IN
    IF ~acc.inBlock /\ OpeningMarker(line) THEN
      Reading(rest, [acc EXCEPT !.inBlock = TRUE, !.lang = MarkerLang(line),
                                !.blocks = @ + 1])
    ELSE IF acc.inBlock /\ ClosingMarker(line) THEN
      Reading(rest, [acc EXCEPT !.inBlock = FALSE, !.lang = <<>>])
    ELSE IF acc.inBlock THEN
      Reading(rest, [acc EXCEPT
        !.kept = @ \o line \o <<NL>>,
        !.rendered = @ \o Highlight(line, LangOrPlain(acc.lang)) \o <<NL>>,
        !.calls = Append(@, [code |-> line, lang |-> LangOrPlain(acc.lang)]),
        !.clean = @ /\ ~HasTriple(line)])
    ELSE
      Reading(rest, [acc EXCEPT
        !.kept = @ \o line \o <<NL>>,
        !.rendered = @ \o line \o <<NL>>,
        !.clean = @ /\ ~HasTriple(line)])

Read(t) ==
  Reading(t, [kept |-> <<>>, rendered |-> <<>>, calls |-> <<>>, inBlock |-> FALSE,
              lang |-> <<>>, clean |-> TRUE, blocks |-> 0])

EndsLine(t) == t = <<>> \/ t[Len(t)] = NL

\* ------------------------------------------------------------------------
\* Claims
\* ------------------------------------------------------------------------

\* C1: after all writes and one flush, the output with the colour escapes
\* removed is the input text with its fence-marker lines deleted; no other
\* character is lost, duplicated or reordered.
C1_RoundTrip == flushed => StripAnsi(output) = Read(text).kept

\* C2: chunk-boundary invariance: the total output and the highlighter calls
\* after the final flush are those of writing the whole text as one chunk.
C2_ChunkInvariance ==
  flushed =>
    LET w == write(initialState, text)
        f == flush(w.buf)
    IN /\ output = w.emitted \o f.emitted
       /\ hlCalls = w.calls \o f.calls

\* C3: plain passthrough: when no line of the input starts with three
\* backticks, the output after flush is the input and the highlighter is
\* never invoked.
C3_PlainPassthrough ==
  (flushed /\ ~HasLineStartTriple(text)) => (output = text /\ hlCalls = <<>>)

\* C4: the buffer leaves NORMAL only when three backticks occur at offset 0
\* of the stream or right after a newline of the concatenated input.
C4_OnlyLineStartFence ==
  (\E i \in DOMAIN lastSteps :
      lastSteps[i].from = "NORMAL" /\ lastSteps[i].to # "NORMAL")
    => HasLineStartTriple(written)

\* C5: split-marker robustness: in a text whose triple backticks are all
\* fence-marker lines, however the marker lines are split across writes,
\* at the end of every line the buffer is in the state and holds the
\* language word the text calls for, exactly the code lines so far have been
\* highlighted, and no backtick of a marker has been emitted.
C5_SplitMarker ==
  (~flushed /\ EndsLine(written) /\ Read(written).clean) =>
    LET r == Read(written) IN
    /\ ref.state = (IF r.inBlock THEN "CODE_BLOCK" ELSE "NORMAL")
    /\ ref.language = LangOption(r.lang)
    /\ ref.pending = <<>> /\ ref.lineBuffer = <<>>
    /\ hlCalls = r.calls
    /\ output = r.rendered

\* a closing marker has just been completed by a write that carried only
\* part of it, in a block whose opening marker named the language "ab"
C5_Witness ==
  /\ ~flushed /\ EndsLine(written) /\ Read(written).clean
  /\ \E i \in DOMAIN lastSteps :
       /\ lastSteps[i].from = "CODE_BLOCK" /\ lastSteps[i].to = "NORMAL"
       /\ lastSteps[i].carried
  /\ Len(hlCalls) = 1 /\ hlCalls[1].lang = <<"a", "b">>

\* C6: fence markers are consumed, never emitted: for a text whose triple
\* backticks are all properly paired marker lines, the output after flush
\* has no three consecutive backticks, the text outside the blocks is
\* verbatim and every code line is highlighted.
C6_MarkersConsumed ==
  (flushed /\ Read(text).clean /\ ~Read(text).inBlock) =>
    /\ ~HasTriple(output)
    /\ output = Read(text).rendered
    /\ StripAnsi(output) = Read(text).kept

C6_Witness ==
  /\ flushed /\ Read(text).clean /\ ~Read(text).inBlock
  /\ Read(text).blocks >= 1
  /\ Len(hlCalls) >= 1
  /\ text[Len(text)] = "b"

\* the text after the last newline of t
LastLine(t) ==
  IF \E i \in 1..Len(t) : t[i] = NL
  THEN SubSeq(t, (CHOOSE i \in 1..Len(t) : t[i] = NL /\ \A j \in (i + 1)..Len(t) : t[j] # NL) + 1,
              Len(t))
  ELSE t

\* C7: unclosed block flush: when the text ends inside a block, after flush
\* every code line since the opening marker, the unterminated last one
\* included, has been highlighted and emitted exactly once.
\* Whatever the text, a flush in CODE_BLOCK highlights and emits the
\* unterminated last line of the input once.
C7_UnclosedFlush ==
  /\ [](  (flushed /\ Read(text).clean /\ Read(text).inBlock) =>
           /\ hlCalls = Read(text).calls
           /\ output = Read(text).rendered)
  /\ [][(~flushed /\ flushed' /\ ref.state = "CODE_BLOCK") =>
         /\ StripAnsi(output') = StripAnsi(output) \o LastLine(text)
         /\ hlCalls' = hlCalls \o
              (IF LastLine(text) = <<>> THEN <<>>
               ELSE <<[code |-> LastLine(text), lang |-> GetOrElse(ref.language, PLAINTEXT)]>>)
         /\ (LastLine(text) # <<>> => output'[Len(output) + 1] = ESC)]_vars

C7_Witness ==
  /\ flushed /\ Read(text).clean /\ Read(text).inBlock
  /\ ~EndsLine(text)
  /\ Len(hlCalls) >= 2
  /\ hlCalls[Len(hlCalls)].code = <<"b">>

\* C8: flush releases the withheld text: text held in pending in NORMAL or
\* CODE_FENCE_OPENING when flush is called is the unwritten end of the
\* input and is appended to the output verbatim, once, unhighlighted.
C8_FlushReleasesPending ==
  [][(~flushed /\ flushed' /\ ref.state \in {"NORMAL", "CODE_FENCE_OPENING"}) =>
       /\ output' = output \o ref.pending
       /\ hlCalls' = hlCalls
       /\ ref.pending = SubSeq(text, Len(text) - Len(ref.pending) + 1, Len(text))
       /\ StripAnsi(output) \o ref.pending = StripAnsi(output')]_vars

C8_Witness ==
  /\ flushed
  /\ text = <<TICK, TICK, TICK, "a">>
  /\ output = text

\* C9: every write terminates: a loop step that reports progress strictly
\* shortens pending, a step that does not shorten pending reports no
\* progress, and the loop leaves within the step budget.
C9_WriteTerminates ==
  /\ ~stuck
  /\ \A i \in DOMAIN lastSteps :
       /\ lastSteps[i].processed => lastSteps[i].shrunk
       /\ ~lastSteps[i].shrunk => ~lastSteps[i].processed
  /\ Len(lastSteps) <= Len(written) + 1

C9_Witness ==
  /\ Len(lastSteps) >= 4
  /\ \E i \in DOMAIN lastSteps : ~lastSteps[i].processed

\* the events a stream calls for: one per data line with a well-formed
\* payload, in order, up to the first [DONE] line; the unterminated last
\* line counts as a line
RECURSIVE EventsOf(_)
EventsOf(lines) ==
  IF lines = <<>> THEN <<>>
  ELSE
    LET l == Trim(Head(lines)) IN
    IF StartsWith(l, DATA) /\ Trim(SliceData(l)) = <<DONE>> THEN <<>>
    ELSE IF StartsWith(l, DATA) /\ JsonValid(Trim(SliceData(l)))
    THEN <<Trim(SliceData(l))>> \o EventsOf(Tail(lines))
    ELSE EventsOf(Tail(lines))

\* C10: the decoder loses no data: while reading, every received character
\* is in a processed line or in the buffer, and when the source has closed
\* every well-formed data line delivered before a [DONE], the unterminated
\* last line included, has yielded exactly one event.
C10_NoDataLost ==
  /\ sseStatus = "reading" =>
       /\ sseBuffer = LastLine(sseReceived)
       /\ sseEvents = EventsOf(SubSeq(Split(sseReceived), 1, Len(Split(sseReceived)) - 1))
  /\ sseStatus = "closed" => sseEvents = EventsOf(Split(sseStream))

\* the complete (newline-terminated) lines of t
CompleteLines(t) == SubSeq(Split(t), 1, Len(Split(t)) - 1)
\* a data line whose payload is exactly [DONE]
IsDoneLine(line) ==
  StartsWith(Trim(line), DATA) /\ Trim(SliceData(Trim(line))) = <<DONE>>
HasDoneLine(lines) == \E i \in DOMAIN lines : IsDoneLine(lines[i])
\* the payloads JSON rejects, of the data lines up to the first [DONE] line
RECURSIVE MalformedOf(_)
MalformedOf(lines) ==
  IF lines = <<>> THEN <<>>
  ELSE
    LET l == Trim(Head(lines)) IN
    IF IsDoneLine(l) THEN <<>>
    ELSE IF StartsWith(l, DATA) /\ ~JsonValid(Trim(SliceData(l)))
    THEN <<Trim(SliceData(l))>> \o MalformedOf(Tail(lines))
    ELSE MalformedOf(Tail(lines))

\* C11: chunk-boundary invariance and ordering of the decoder: however the
\* stream is split into chunks, when the generator has ended it has yielded
\* the events of the stream's complete data lines (up to a [DONE] line), in
\* the order of the lines.
C11_SseChunkInvariance ==
  sseStatus \in {"closed", "returned"} =>
    sseEvents = EventsOf(CompleteLines(sseStream))

\* the source has closed after two data lines with different payloads
C11_Witness ==
  /\ sseStatus = "closed"
  /\ Len(sseEvents) = 2
  /\ sseEvents[1] = <<"1">> /\ sseEvents[2] = <<"1", "1">>

\* C12: [DONE] ends the sequence at once: the generator has returned exactly
\* when a [DONE] data line is among the complete lines received; the events
\* are those of the lines before it, none for a later line of the same
\* chunk, and nothing is read or yielded afterwards.
C12_DoneEndsSequence ==
  /\ [](sseStatus = "returned" <=> HasDoneLine(CompleteLines(sseReceived)))
  /\ [](sseStatus = "returned" => sseEvents = EventsOf(CompleteLines(sseReceived)))
  /\ [][sseStatus = "returned" =>
          (ssePos' = ssePos /\ sseEvents' = sseEvents /\ sseStatus' = "returned")]_vars

\* the chunk that carried the [DONE] line also carried a later data line
C12_Witness ==
  /\ sseStatus = "returned"
  /\ ssePos = Len(sseStream)
  /\ sseStream = DATA \o <<" ", "1", NL>> \o DATA \o <<" ", DONE, NL>>
                   \o DATA \o <<"1", "1", NL>>
  /\ sseEvents = << <<"1">> >>

\* C13: a malformed payload does not abort the stream: it yields nothing
\* and is logged, the generator ends only on [DONE] or when the source
\* closes, and the well-formed data lines around it are yielded in order.
C13_MalformedSkipped ==
  /\ sseErrors = MalformedOf(CompleteLines(sseReceived))
  /\ sseEvents = EventsOf(CompleteLines(sseReceived))
  /\ sseStatus = "returned" => HasDoneLine(CompleteLines(sseReceived))

\* a well-formed data line after a malformed one has been yielded
C13_Witness ==
  /\ sseStatus = "closed"
  /\ sseStream = DATA \o <<"x", NL>> \o DATA \o <<" ", "1", NL>>
  /\ sseErrors = << <<"x">> >>
  /\ sseEvents = << <<"1">> >>


\* ------------------------------------------------------------------------
\* Delta extraction
\* ------------------------------------------------------------------------
\* a non-empty string
IsText(x) == x.k = "string" /\ x.chars # <<>>

\* the event carries a text in one of the places its endpoint reads
CarriesText(chunk, api) ==
  IF api = "/responses"
  THEN LET d == Opt(chunk, "delta") IN
       /\ Opt(chunk, "type") \in {CONTENT_DELTA, OUTPUT_TEXT_DELTA}
       /\ \/ IsText(d)
          \/ IsText(Opt(d, "text"))
          \/ IsText(Opt(d, "content"))
          \/ IsText(Opt(d, "output_text"))
          \/ IsText(Opt(Opt(d, "output_text"), "text"))
  ELSE IsText(Opt(Opt(Opt(Opt(chunk, "choices"), "0"), "delta"), "content"))

\* C14: for each protocol event either endpoint's extraction raises no error
\* and emits nothing or exactly one non-empty string; it emits nothing for
\* an event that carries no text where the endpoint reads it.
C14_ZeroOrOneText ==
  dApi # "none" =>
    /\ ~dOut.threw
    /\ Len(dOut.emitted) <= 1
    /\ \A i \in DOMAIN dOut.emitted : IsText(dOut.emitted[i])
    /\ ~CarriesText(dChunk, dApi) => dOut.emitted = <<>>

\* ------------------------------------------------------------------------
\* Endpoint fallback
\* ------------------------------------------------------------------------
\* C15: with use_responses the first request goes to /responses and every
\* abnormal end of that stream is followed by the request to
\* /chat/completions; an error reaches the caller only from the
\* /chat/completions stream; without use_responses /responses is never
\* requested.
C15_EndpointFallback ==
  /\ [](chatRequests # <<>> =>
          chatRequests[1] = (IF useResponses THEN RESPONSES ELSE COMPLETIONS))
  /\ [](~useResponses => \A i \in DOMAIN chatRequests : chatRequests[i] # RESPONSES)
  /\ [](chatPhase \in {"failed", "died"} =>
          chatRequests[Len(chatRequests)] = COMPLETIONS)
  /\ [][chatPhase = RESPONSES /\ chatPhase' \notin {RESPONSES, "done"} =>
          /\ chatPhase' = COMPLETIONS
          /\ chatRequests' = Append(chatRequests, COMPLETIONS)]_vars

\* ------------------------------------------------------------------------
\* Syntax highlighter
\* ------------------------------------------------------------------------
\* C16: every highlight call completes successfully, and one in which the
\* engine initialization or the tokenization failed returns its code
\* unchanged, so no text is lost to a highlighting failure.
C16_NeverFailsOutward ==
  shCount > 0 =>
    /\ shExit.tag = "Success"
    /\ shCause # "none" => shExit.value = shCode

C16_Witness ==
  /\ shCause = "tokens"
  /\ shCode = <<"a", NL, "a">>
  /\ shLang = "js"
  /\ shExit = [tag |-> "Success", value |-> <<"a", NL, "a">>]

\* the tag names no supported language, whatever its capitals, and no alias
UnknownTag(lang) ==
  \A known \in SUPPORTED_LANGUAGES \cup DOMAIN LANGUAGE_ALIASES :
     lang # known /\ toLowerCase(lang) # known

\* C17: a call with a language tag that is neither a supported language nor
\* an alias returns the code unchanged, without colour escapes, and raises
\* no error.
C17_UnknownLanguage ==
  (shCount > 0 /\ UnknownTag(shLang)) => shExit = [tag |-> "Success", value |-> shCode]

\* C18: the body of initHighlighter is executed at most once in a process.
C18_SingleInit == shInitRuns <= 1

\* the number of newlines of s
RECURSIVE CountNL(_)
CountNL(s) ==
  IF s = <<>> THEN 0
  ELSE (IF Head(s) = NL THEN 1 ELSE 0) + CountNL(Tail(s))

\* C19: the output of highlight without its colour escapes is the code, and
\* has as many newlines as the code.
C19_ContentPreserved ==
  shCount > 0 =>
    /\ StripAnsi(shExit.value) = shCode
    /\ CountNL(shExit.value) = CountNL(shCode)

\* C20: once warmupHighlighter() has completed the engine is initialized and
\* no later highlight call executes the engine initialization.
C20_WarmupInitializes ==
  /\ [](shWarmed => shEngine)
  /\ [][shWarmed => shInitRuns' = shInitRuns]_vars

\* ------------------------------------------------------------------------
\* Conversation history
\* ------------------------------------------------------------------------
\* the (user, assistant) pairs of the calls of a log, in order
RECURSIVE PairsOf(_)
PairsOf(log) ==
  IF log = <<>> THEN <<>>
  ELSE <<[role |-> "user", content |-> Head(log)[1]],
         [role |-> "assistant", content |-> Head(log)[2]]>> \o PairsOf(Tail(log))

C22_FetchedOnce ==
  /\ Len(mrFetches) <= 1
  /\ \A i \in DOMAIN mrReturned : mrReturned[i] = mrFetches[1]

\* q without its leading and trailing blanks, in lower case
RECURSIVE Unblank(_)
Unblank(q) ==
  IF q = <<>> THEN <<>>
  ELSE IF Head(q) = " " THEN Unblank(Tail(q))
  ELSE IF q[Len(q)] = " " THEN Unblank(SubSeq(q, 1, Len(q) - 1))
  ELSE [i \in 1..Len(q) |-> IF q[i] = "A" THEN "a" ELSE IF q[i] = "B" THEN "b" ELSE q[i]]

\* q is h with some characters left out
IsSubsequence(q, h) ==
  \E f \in [1..Len(q) -> 1..Len(h)] :
     /\ \A i \in 1..Len(q) : h[f[i]] = q[i]
     /\ \A i \in 1..(Len(q) - 1) : f[i] < f[i + 1]

\* q is a stretch of h
IsSubstring(q, h) ==
  \E i \in 1..(Len(h) + 1) : i + Len(q) - 1 <= Len(h) /\ SubSeq(h, i, i + Len(q) - 1) = q

\* the lower-cased "<id> <name>" of a model
HaystackOf(m) == Unblank(<<"-">> \o m.id \o <<" ">> \o m.name \o <<"-">>)

Wanted(m, q) ==
  LET h == SubSeq(HaystackOf(m), 2, Len(HaystackOf(m)) - 1) IN
  IsSubstring(q, h) \/ IsSubsequence(q, h)

\* the models of a list that are wanted, in the order of the list
RECURSIVE WantedOf(_, _)
WantedOf(models, q) ==
  IF models = <<>> THEN <<>>
  ELSE (IF Wanted(Head(models), q) THEN <<Head(models)>> ELSE <<>>)
       \o WantedOf(Tail(models), q)

\* C23: filterModels returns, in the original order, exactly the models
\* whose lower-cased "<id> <name>" has the trimmed lower-cased query as a
\* substring or a subsequence, and the whole list for an empty or blank query.
C23_FilterModels ==
  fmDone =>
    fmResult = (IF Unblank(fmQuery) = <<>> THEN fmModels
                ELSE WantedOf(fmModels, Unblank(fmQuery)))

C23_Witness ==
  /\ fmDone
  /\ fmQuery = <<" ", "A", "a">>
  /\ Len(fmModels) = 2
  /\ fmModels[1].id = <<"b", "b">>
  /\ fmModels[2].id = <<"a", "b">>
  /\ Len(fmResult) = 1
  /\ fmResult[1].id = <<"a", "b">>

\* the steps of the latest write() that found a newline in CODE_BLOCK
CodeLineSteps ==
  {i \in DOMAIN lastSteps :
     /\ lastSteps[i].from = "CODE_BLOCK"
     /\ \E k \in DOMAIN lastSteps[i].before.pending : lastSteps[i].before.pending[k] = NL}

\* the text of p before its first newline, and the text after that newline
UpToNL(p) == SubSeq(p, 1, CHOOSE k \in DOMAIN p : p[k] = NL /\ \A j \in 1..(k - 1) : p[j] # NL)
LineOf(p) == SubSeq(UpToNL(p), 1, Len(UpToNL(p)) - 1)
RestOf(p) == SubSeq(p, Len(UpToNL(p)) + 1, Len(p))

\* three backticks followed only by spaces and tabs
ClosingLine(l) ==
  /\ Len(l) >= 3
  /\ \A k \in 1..3 : l[k] = TICK
  /\ \A k \in 4..Len(l) : l[k] = " "

\* C24: in CODE_BLOCK, when the newline completing a line arrives: if lineBuffer
\* plus the text before the newline is three backticks followed only by
\* blanks, the buffer goes to NORMAL with no language and an empty lineBuffer
\* and emits nothing; otherwise it emits the highlighted line and exactly one
\* newline, clears lineBuffer and stays in CODE_BLOCK with the same language;
\* either way it goes on with what followed the newline.
C24_CodeLineStep ==
  \A i \in CodeLineSteps :
    LET st == lastSteps[i]
        full == st.before.lineBuffer \o LineOf(st.before.pending)
    IN
    /\ st.processed
    /\ st.next.pending = RestOf(st.before.pending)
    /\ st.next.lineBuffer = <<>>
    /\ IF ClosingLine(full)
       THEN /\ st.next.state = "NORMAL"
            /\ st.next.language = None
            /\ st.emitted = <<>>
            /\ st.calls = <<>>
       ELSE /\ st.next.state = "CODE_BLOCK"
            /\ st.next.language = st.before.language
            /\ st.calls = <<[code |-> full,
                             lang |-> IF st.before.language.some
                                      THEN st.before.language.value ELSE PLAINTEXT]>>
            /\ st.emitted = Highlight(full, st.calls[1].lang) \o <<NL>>

C24_Witness ==
  /\ \E i \in CodeLineSteps :
       /\ lastSteps[i].before.lineBuffer = <<"a">>
       /\ lastSteps[i].emitted = <<ESC, "a", RESET, NL>>
       /\ lastSteps[i].next.pending # <<>>
  /\ \E i \in CodeLineSteps :
       /\ lastSteps[i].before.pending = <<TICK, TICK, TICK, " ", NL>>
       /\ lastSteps[i].to = "NORMAL"

\* what follows the last newline of a text
RECURSIVE LastPartial(_)
LastPartial(t) ==
  IF \A k \in DOMAIN t : t[k] # NL THEN t ELSE LastPartial(RestOf(t))

\* the calls are made with lines of the list, each line used at most once
\* and in the order of the list
RECURSIVE Embeds(_, _)
Embeds(calls, lines) ==
  IF calls = <<>> THEN TRUE
  ELSE IF lines = <<>> THEN FALSE
  ELSE IF Head(calls).code = Head(lines) THEN Embeds(Tail(calls), Tail(lines))
  ELSE Embeds(calls, Tail(lines))

\* C25: during write() the highlighter is invoked only with whole lines of the
\* input (all characters between two newlines, however many chunks they came
\* in), never twice for the same line; only flush() may highlight a final
\* line that has no newline.
C25_WholeLinesOnce ==
  /\ ~flushed => Embeds(hlCalls, CompleteLines(written))
  /\ flushed =>
       \/ Embeds(hlCalls, CompleteLines(text))
       \/ /\ hlCalls # <<>>
          /\ LastPartial(text) # <<>>
          /\ hlCalls[Len(hlCalls)].code = LastPartial(text)
          /\ Embeds(SubSeq(hlCalls, 1, Len(hlCalls) - 1), CompleteLines(text))

C25_Witness ==
  /\ flushed
  /\ text = <<TICK, TICK, TICK, NL, "a", NL, "b">>
  /\ Len(hlCalls) = 2
  /\ hlCalls[1].code = <<"a">>
  /\ hlCalls[2].code = <<"b">>

\* the offsets in p of the three backticks that start a line made of them
\* and a word only, newline included
OpeningAt(p) ==
  {f \in 0..Len(p) :
     /\ f = 0 \/ p[f] = NL
     /\ f + 3 <= Len(p)
     /\ \A k \in 1..3 : p[f + k] = TICK
     /\ \E e \in (f + 4)..Len(p) :
          p[e] = NL /\ \A k \in (f + 4)..(e - 1) : p[k] \in {"a", "b"}}

\* the longest word that follows the three backticks at offset f of p
WordAfter(p, f) ==
  LET ends == {e \in (f + 3)..Len(p) :
                 /\ \A k \in (f + 4)..e : p[k] \in {"a", "b"}
                 /\ e = Len(p) \/ p[e + 1] \notin {"a", "b"}}
  IN SubSeq(p, f + 4, CHOOSE e \in ends : TRUE)

\* the language a fence word stands for
LanguageOf(word) ==
  IF word = <<>> THEN [some |-> FALSE, value |-> <<>>] ELSE [some |-> TRUE, value |-> word]

\* the languages of a sequence of highlighter calls
LangsOf(calls) == [i \in DOMAIN calls |-> calls[i].lang]

\* C26: every code line is highlighted with the language word that follows
\* the three backticks of the opening fence of its own block, captured alike
\* whether the fence arrived whole or through CODE_FENCE_OPENING, or with the
\* plain language when that fence has no word; the language is none again
\* when the block closes.
C26_LanguageTracking ==
  /\ ref.state # "CODE_BLOCK" => ref.language = [some |-> FALSE, value |-> <<>>]
  /\ \A i \in DOMAIN lastSteps :
       LET st == lastSteps[i] IN
       /\ (st.from = "NORMAL" /\ st.to = "CODE_BLOCK") =>
            /\ OpeningAt(st.before.pending) # {}
            /\ st.next.language =
                 LanguageOf(WordAfter(st.before.pending,
                                      CHOOSE f \in OpeningAt(st.before.pending) :
                                        \A g \in OpeningAt(st.before.pending) : f <= g))
       /\ (st.from = "CODE_FENCE_OPENING" /\ st.to = "CODE_BLOCK") =>
            st.next.language = LanguageOf(WordAfter(st.before.pending, 0))
       /\ (st.from = "CODE_BLOCK" /\ st.to = "CODE_BLOCK") =>
            st.next.language = st.before.language
       /\ st.from = "CODE_BLOCK" =>
            \A k \in DOMAIN st.calls :
               st.calls[k].lang = (IF st.before.language.some
                                   THEN st.before.language.value ELSE PLAINTEXT)
       /\ st.to # "CODE_BLOCK" => st.next.language = [some |-> FALSE, value |-> <<>>]
  /\ (flushed /\ Read(text).clean) => LangsOf(hlCalls) = LangsOf(Read(text).calls)

\* a block without a language word after a block that named the language "ab"
C26_Witness ==
  /\ flushed
  /\ text = <<TICK, TICK, TICK, "a", "b", NL, TICK, TICK, TICK, NL>>
            \o <<TICK, TICK, TICK, NL, "b">>
  /\ hlCalls = <<[code |-> <<"b">>, lang |-> PLAINTEXT]>>

\* t is one line: three backticks, a word (possibly empty), at least one
\* blank, and the newline
PermissiveLine(t) ==
  /\ Len(t) >= 5
  /\ \A k \in 1..3 : t[k] = TICK
  /\ t[Len(t)] = NL
  /\ t[Len(t) - 1] = " "
  /\ \E e \in 3..(Len(t) - 2) :
       /\ \A k \in 4..e : t[k] \in {"a", "b"}
       /\ \A k \in (e + 1)..(Len(t) - 1) : t[k] = " "

\* C27: an opening fence line at the start of the stream with trailing blanks
\* after the language word is accepted as a fence open with that language,
\* the trailing content being ignored, for every chunking of the line.
C27_PermissiveFence ==
  (~flushed /\ PermissiveLine(written)) =>
    /\ ref.state = "CODE_BLOCK"
    /\ ref.language = LanguageOf(WordAfter(written, 0))
    /\ ref.pending = <<>> /\ ref.lineBuffer = <<>>
    /\ output = <<>>

\* the input written so far that write() has not held back
Released == SubSeq(written, 1, Len(written) - Len(ref.pending))

\* the withheld text is the end of the input written so far
WithheldIsSuffix ==
  /\ Len(ref.pending) <= Len(written)
  /\ ref.pending = SubSeq(written, Len(Released) + 1, Len(written))

\* the withheld text in NORMAL: nothing, or one or two backticks, possibly
\* with the newline before them
WithheldTicks ==
  ref.pending \in {<<>>, <<TICK>>, <<TICK, TICK>>, <<NL, TICK>>, <<NL, TICK, TICK>>}

\* the backticks withheld in NORMAL are at the start of a line of the input
WithheldAtLineStart ==
  ref.pending \in {<<TICK>>, <<TICK, TICK>>} =>
    (Released = <<>> \/ Released[Len(Released)] = NL)

\* the withheld text in CODE_FENCE_OPENING: three backticks first, no newline
WithheldFence ==
  /\ Len(ref.pending) >= 3
  /\ \A k \in 1..3 : ref.pending[k] = TICK
  /\ \A k \in DOMAIN ref.pending : ref.pending[k] # NL

\* everything before the withheld text has been emitted
ReleasedEmitted ==
  Read(Released).clean => StripAnsi(output) = Read(Released).kept

\* C28: when write() returns in NORMAL the input not yet emitted is empty or
\* one or two backticks at the start of a line (possibly with the newline
\* that begins the line); in CODE_FENCE_OPENING it begins with three
\* backticks and has no newline; all input before it has been emitted.
C28_MinimalWithholding ==
  (~flushed /\ ref.state # "CODE_BLOCK") =>
    /\ WithheldIsSuffix
    /\ ReleasedEmitted
    /\ ref.state = "NORMAL" => (WithheldTicks /\ WithheldAtLineStart)
    /\ ref.state = "CODE_FENCE_OPENING" => WithheldFence

\* the same without the requirement that withheld backticks start a line
WithheldShape ==
  (~flushed /\ ref.state # "CODE_BLOCK") =>
    /\ WithheldIsSuffix
    /\ ReleasedEmitted
    /\ ref.state = "NORMAL" => WithheldTicks
    /\ ref.state = "CODE_FENCE_OPENING" => WithheldFence

\* the response of the submitted line is over
ResponseOver == plPhase \in {"flushed", "failed"}

\* the places of the flush calls among the calls on the StreamBuffer
FlushCalls == {i \in DOMAIN plEvents : plEvents[i].op = "flush"}

\* C29: for every response of the chat shell, whether the delta stream ends
\* normally or with an error, StreamBuffer.flush is called exactly once,
\* after the last write has completed, and no write follows it.
C29_FlushOnce ==
  /\ ResponseOver =>
       /\ Cardinality(FlushCalls) = 1
       /\ plEvents[Len(plEvents)].op = "flush"
  /\ \A i \in FlushCalls :
       /\ i = Len(plEvents)
       /\ \A j \in 1..(i - 1) :
            plEvents[j].op = "write" =>
              \E k \in (j + 1)..(i - 1) :
                 plEvents[k].op = "written" /\ plEvents[k].n = plEvents[j].n

\* the same for the responses whose stream ends normally
FlushOnceOnSuccess ==
  /\ plPhase = "flushed" =>
       /\ Cardinality(FlushCalls) = 1
       /\ plEvents[Len(plEvents)].op = "flush"
  /\ plPhase \notin {"flushed", "failed"} => FlushCalls = {}
  /\ \A i \in FlushCalls :
       /\ i = Len(plEvents)
       /\ \A j \in 1..(i - 1) :
            plEvents[j].op = "write" =>
              \E k \in (j + 1)..(i - 1) :
                 plEvents[k].op = "written" /\ plEvents[k].n = plEvents[j].n

C31_TransportFailure ==
  /\ [](sseLastRead = "error" <=> sseStatus = "failed")
  /\ [][sseLastRead' = "error" =>
          (sseEvents' = sseEvents /\ ssePos' = ssePos /\ sseStream' = sseStream)]_vars
  /\ [][sseStatus = "failed" =>
          (sseStatus' = "failed" /\ sseLastRead' = "error" /\ ssePos' = ssePos
           /\ sseEvents' = sseEvents /\ sseStream' = sseStream)]_vars

\* the read fails in mid-stream, after an event has been yielded
C31_Witness ==
  /\ sseStatus = "failed"
  /\ sseLastRead = "error"
  /\ Len(sseEvents) = 1
  /\ ssePos < Len(sseStream)
  /\ ssePos > 0

\* a value that is there and is not empty
NonEmpty(v) ==
  /\ v.k \notin {"undefined", "null"}
  /\ v.k = "string" => Len(v.chars) > 0
  /\ v.k = "number" => v.digits # <<"0">>

\* the property of a value, absent when the value has none of that name
Field(v, name) ==
  IF v.k = "object" /\ name \in DOMAIN v.properties THEN v.properties[name]
  ELSE [k |-> "undefined"]

\* the places extractTextFromDelta looks at, in their order
Candidates(delta) ==
  << Field(delta, "text"),
     Field(delta, "content"),
     IF Field(delta, "output_text").k = "string"
       THEN Field(delta, "output_text") ELSE [k |-> "undefined"],
     Field(Field(delta, "output_text"), "text") >>

\* the first non-empty candidate, the empty string when there is none
FirstNonEmpty(delta) ==
  LET c == Candidates(delta)
      hits == {i \in 1..4 : NonEmpty(c[i])}
  IN IF hits = {} THEN [k |-> "string", chars |-> <<>>]
     ELSE c[CHOOSE i \in hits : \A j \in hits : i <= j]

\* the delta of the event the callback of streamResponsesAPI was given
EventDelta == Field(dChunk, "delta")

\* C32: extractTextFromDelta returns the delta itself when it is a string,
\* otherwise the first non-empty value in the order delta.text,
\* delta.content, delta.output_text (when a string), delta.output_text.text,
\* and the empty string, for which no delta is emitted, when there is none.
C32_SubShapeOrder ==
  dText.k # "uncalled" =>
    /\ dText = (IF EventDelta.k = "string" THEN EventDelta ELSE FirstNonEmpty(EventDelta))
    /\ dText = [k |-> "string", chars |-> <<>>] => dOut.emitted = <<>>

\* text, content and output_text.text are all there: text wins
C32_Witness ==
  /\ dText = [k |-> "string", chars |-> <<"t">>]
  /\ NonEmpty(Field(EventDelta, "content"))
  /\ NonEmpty(Field(Field(EventDelta, "output_text"), "text"))

\* a is the beginning of b
IsPrefix(a, b) == Len(a) <= Len(b) /\ a = SubSeq(b, 1, Len(a))

\* the /responses stream, having emitted at least one delta, ends abnormally
PartialStreamFails ==
  /\ chatPhase = RESPONSES
  /\ chatDeltas # <<>>
  /\ chatPhase' \notin {RESPONSES, "done"}

\* the deltas the consumer has received are never taken back
NeverRetracted == IsPrefix(chatDeltas, chatDeltas')

\* C33: when the /responses stream fails after it has emitted k >= 1
\* deltas, chatStream does not retract them: the consumer receives those k
\* deltas followed by the /chat/completions stream of the retried request.
C33_PartialStreamFallback ==
  /\ [][NeverRetracted]_vars
  /\ [][PartialStreamFails =>
          /\ chatPhase' = COMPLETIONS
          /\ chatRequests' = Append(chatRequests, COMPLETIONS)
          /\ chatDeltas' = chatDeltas]_vars

\* the same for the failures chatStream sees in the error channel
PartialStreamFallbackOnErrors ==
  /\ [][NeverRetracted]_vars
  /\ [][(PartialStreamFails /\ chatPhase' # "died") =>
          /\ chatPhase' = COMPLETIONS
          /\ chatRequests' = Append(chatRequests, COMPLETIONS)
          /\ chatDeltas' = chatDeltas]_vars

\* C34: after every write() returns, in CODE_BLOCK pending is empty and
\* lineBuffer has no newline; in NORMAL and CODE_FENCE_OPENING lineBuffer is
\* empty and the language is none: a language is set only in CODE_BLOCK.
C34_StateInvariant ==
  /\ ref.state \in {"NORMAL", "CODE_FENCE_OPENING", "CODE_BLOCK"}
  /\ ref.state = "CODE_BLOCK" =>
       /\ ref.pending = <<>>
       /\ \A k \in DOMAIN ref.lineBuffer : ref.lineBuffer[k] # NL
  /\ ref.state # "CODE_BLOCK" =>
       /\ ref.lineBuffer = <<>>
       /\ ~ref.language.some
  /\ ref.language.some => (ref.state = "CODE_BLOCK" /\ ref.language.value # <<>>)

\* a write has returned inside a block with a language, part of a code line
\* carried in lineBuffer
C34_Witness ==
  /\ ~flushed
  /\ lastSteps # <<>>
  /\ ref.state = "CODE_BLOCK"
  /\ ref.language = [some |-> TRUE, value |-> <<"a", "b">>]
  /\ ref.lineBuffer = <<"b">>
  /\ Len(hlCalls) = 1

\* C35: after flush() the buffer is back in its initial state (NORMAL, empty
\* pending, empty lineBuffer, no language), so an immediately repeated
\* flush() emits nothing and text written afterwards is processed as a fresh
\* stream.
C35_FlushFinalizes ==
  /\ rfLast \in {"flush", "reflush"} =>
       ref = [state |-> "NORMAL", lineBuffer |-> <<>>,
              language |-> [some |-> FALSE, value |-> <<>>], pending |-> <<>>]
  /\ rfLast = "reflush" => rfFlushOut = [emitted |-> <<>>, calls |-> <<>>]
  /\ rfCount > 0 => (ref = rfShadow /\ rfSince = rfShadowOut)

\* a flush inside an unclosed block; the marker line written next to the
\* flushed buffer opens a block instead of closing one
C35_Witness ==
  /\ rfCount = 1
  /\ rfLast = "write"
  /\ text = <<TICK, TICK, TICK, NL, TICK, TICK, TICK, NL>>
  /\ pos = Len(text)
  /\ ref.state = "CODE_BLOCK"
  /\ Len(lastSteps) = 1
  /\ lastSteps[1].from = "NORMAL"

\* a flush repeated at once
C35_ReflushWitness ==
  /\ rfLast = "reflush"
  /\ output # <<>>

\* an ask() call is made
AskIsCalled == ciPhase = "idle" /\ ciPhase' = "streaming"

\* the messages of a request without the system message and the new user
\* message: the conversation sent along
SentConversation(messages) ==
  LET first == IF messages # <<>> /\ messages[1].role = "system" THEN 2 ELSE 1
  IN SubSeq(messages, first, Len(messages) - 1)

\* C36: setModel changes only the model used by later ask() calls; the
\* history is unchanged, so the next ask sends all earlier (user, assistant)
\* pairs to the new model.
C36_SetModelKeepsHistory ==
  /\ [][ciSets' # ciSets =>
          /\ ciHistory' = ciHistory
          /\ ciSentModel' = ciSentModel
          /\ ciMessages' = ciMessages
          /\ ciPhase' = ciPhase /\ ciAcc' = ciAcc /\ ciLog' = ciLog]_vars
  /\ [][AskIsCalled =>
          /\ ciSentModel' = ciModel
          /\ SentConversation(ciMessages') = PairsOf(ciLog)]_vars

\* after one answered question the model is switched; the next ask sends
\* the pair to the new model
C36_Witness ==
  /\ ciPhase = "streaming"
  /\ ciSets = 1
  /\ ciSentModel = "claude"
  /\ Len(ciLog) = 1
  /\ Len(SentConversation(ciMessages)) = 2


\* C37: a call of getBearerToken that finds the stored expires_at later than
\* the current time returns the stored bearer token, makes no network request
\* and leaves tokens.json alone; any other call that succeeds has asked the
\* endpoint for a new bearer token, which it returns and which tokens.json
\* now holds together with its expiry and with the OAuth token stored before;
\* the device flow ran only in a call that found no OAuth token in tokens.json
\* and none in an existing Copilot config.
C37_BearerCaching ==
  auCalls > 0 =>
    /\ auBefore.expires_at > auAt =>
         /\ auRequests = <<>>
         /\ auResult = [ok |-> TRUE, token |-> auBefore.bearer_token]
         /\ auCache = auBefore
    /\ (~(auBefore.expires_at > auAt) /\ auResult.ok) =>
         /\ auRequests # <<>>
         /\ auRequests[Len(auRequests)] = "bearer"
         /\ auResult.token = auFetched.token
         /\ auCache.bearer_token = auFetched.token
         /\ auCache.expires_at = auFetched.expires_at
         /\ auBefore.oauth_token # <<>> => auCache.oauth_token = auBefore.oauth_token
         /\ auCache.oauth_token # <<>> \/ auConfig # <<>>
    /\ (\E i \in 1..Len(auRequests) : auRequests[i] = "device") =>
         /\ auBefore.oauth_token = <<>>
         /\ auConfig = <<>>

\* the first call ran the device flow and fetched a bearer token, after it
\* expired the second call fetched another, the third returned that one
\* from tokens.json
C37_Witness ==
  /\ auCalls = 3
  /\ auLog = <<"device", "bearer", "bearer">>
  /\ auRequests = <<>>
  /\ auResult.ok
  /\ auBefore.expires_at > auAt
  /\ auCache.oauth_token = DeviceToken


\* C38: for every submitted chat message, the first and every later one, no
\* spinner timer is active once the first response chunk has been written,
\* and none is active once the request has completed or failed.
C38_SpinnerLifecycle ==
  /\ spPhase = "streaming" => spinnerTimer = 0
  /\ spPhase \in {"done", "failed"} => spinnerTimer = 0

\* the same for the first chat message of the session
SpinnerClearedFirstRequest ==
  spRequests = 1 =>
    /\ spPhase = "streaming" => spinnerTimer = 0
    /\ spPhase \in {"done", "failed"} => spinnerTimer = 0

\* the timer the second chat message started is still active after the third
\* has completed
SpinnerLeftRunning ==
  /\ spRequests = 3
  /\ spPhase = "done"
  /\ spChunks > 0
  /\ spinnerTimer = 2


\* an opening fence and at least one code line have been written to the
\* class-based buffer, and no closing fence, when flush() is called
UnclosedAtFlush ==
  /\ cbFlushed
  /\ cbBefore.state = "CODE_BLOCK"
  /\ \E i \in 1..Len(cbBefore.buffer) : cbBefore.buffer[i] = NL

\* C39: when an opening fence and one or more code lines have been written
\* to the class-based StreamBuffer with no closing fence, flush() emits the
\* buffered code highlighted, with colour escapes, not raw.
C39_FlushHighlights ==
  UnclosedAtFlush =>
    /\ \E i \in 1..Len(cbFlushOut) : cbFlushOut[i] = ESC
    /\ StripAnsi(cbFlushOut) = cbBefore.buffer \o cbBefore.pendingChunk
    /\ cbCalls # <<>>

\* what flush() does with an unclosed code block: the buffered code and the
\* pending chunk go to onWrite as they are, the highlighter is not called
ClassFlushRaw ==
  UnclosedAtFlush =>
    /\ cbFlushOut = cbBefore.buffer \o cbBefore.pendingChunk
    /\ \A i \in 1..Len(cbFlushOut) : cbFlushOut[i] # ESC
    /\ cbCalls = <<>>

\* the opening fence with a language and one code line, then flush()
UnclosedFlushed ==
  /\ UnclosedAtFlush
  /\ cbText = <<TICK, TICK, TICK, "a", "b", NL, "a", NL>>
  /\ cbBefore.language = <<"a", "b">>
  /\ cbOut = <<"a", NL>>

====
